---- MODULE Spec2Model ----
(***************************************************************************)
(* Model of the site-checker monitoring engine: the SQLite state store     *)
(* (monitor/database.py), and the scheduler that drives it                 *)
(* (monitor/scheduler.py, main.py).                                        *)
(*                                                                         *)
(* Time is the wall clock of now_izhevsk() in whole seconds.  A stored     *)
(* timestamp is the ISO string of format_datetime(); parse_datetime() of   *)
(* it gives back the same instant and, the offset being fixed, the string  *)
(* order is the time order, so a timestamp is modelled by its instant.     *)
(* All clock reads made by one synchronous store call see the same second. *)
(* The columns created_at and updated_at are written but never read by any *)
(* code; they are left out.                                                *)
(***************************************************************************)
EXTENDS Integers, Sequences, FiniteSets, TLC

VARIABLES
    sites_state,   \* table sites_state: site_id -> row
    incidents,     \* table incidents: sequence of rows, the id is the index
    user_mutes,    \* table user_mutes: set of rows, key (user_id, site_id)
    now,           \* the wall clock, seconds
    tasks,         \* the coroutines of the process and where each one waits
    conns          \* callers that use the store through connections of their own

vars == <<sites_state, incidents, user_mutes, now, tasks, conns>>

\* ------------------------------------------------------------------------
\* Bounds of the model
\* ------------------------------------------------------------------------
MaxTime == 900
MaxIncidents == 2
MaxReminders == 5
MaxFailStreak == 2

\* config.sites, in the order of the configuration file
ConfigSites == <<"a", "b">>
Sites == {ConfigSites[i] : i \in DOMAIN ConfigSites}
Users == {1}
\* the clock advances in steps of one first reminder interval
Deltas == {900}
RetryCounts == {1, 3}

\* SQL NULL / Python None in a nullable column or return value
NULL == -1

\* Failing check results as (error_type, error) pairs
Failures ==
    { [error_type |-> "timeout", error |-> "Timeout"],
      [error_type |-> "wrong_code", error |-> "Wrong HTTP code: 500, expected: 200"] }

\* The way each configured site fails when its check fails
FailureOf(site_id) ==
    IF site_id = ConfigSites[1]
    THEN [error_type |-> "timeout", error |-> "Timeout"]
    ELSE [error_type |-> "wrong_code", error |-> "Wrong HTTP code: 500, expected: 200"]

\* ------------------------------------------------------------------------
\* Reminder interval
\* ------------------------------------------------------------------------
Min(x, y) == IF x <= y THEN x ELSE y

\* mutant: the cap of 240 minutes is missing
get_next_reminder_interval_uncapped(reminder_count) ==
    15 * (2 ^ reminder_count)

get_next_reminder_interval(reminder_count) ==
    Min(15 * (2 ^ reminder_count), 240)

calc_next_reminder(reminder_count, t) ==
    t + 60 * get_next_reminder_interval(reminder_count)

\* ------------------------------------------------------------------------
\* The store.  Every operator takes the three tables as one record db and
\* the clock t, and gives the tables after the call and the returned value.
\* ------------------------------------------------------------------------
DB == [sites_state |-> sites_state, incidents |-> incidents,
       user_mutes |-> user_mutes]

DefaultState(t) ==
    [status |-> "UP", fail_streak |-> 0, last_status_change |-> t,
     last_notify_at |-> NULL, reminder_count |-> 0,
     next_reminder_at |-> NULL, current_incident_id |-> NULL]

\* mutant: INSERT OR REPLACE, the row is set back to the default on every call
get_state_replaces(db, site_id, t) ==
    [db |-> [db EXCEPT !.sites_state =
                [x \in DOMAIN @ \cup {site_id} |->
                    IF x = site_id THEN DefaultState(t) ELSE @[x]]],
     state |-> DefaultState(t)]

get_state(db, site_id, t) ==
    IF site_id \in DOMAIN db.sites_state
    THEN [db |-> db, state |-> db.sites_state[site_id]]
    ELSE [db |-> [db EXCEPT !.sites_state = (site_id :> DefaultState(t)) @@ @],
          state |-> DefaultState(t)]

\* UPDATE sites_state SET ... WHERE site_id = ?
UpdateRow(db, site_id, row) ==
    IF site_id \in DOMAIN db.sites_state
    THEN [db EXCEPT !.sites_state[site_id] = row]
    ELSE db

create_incident(db, site_id, error_type, error_message, t) ==
    [db |-> [db EXCEPT !.incidents = Append(@,
                [site_id |-> site_id, started_at |-> t, ended_at |-> NULL,
                 duration_seconds |-> NULL, error_type |-> error_type,
                 error_message |-> error_message])],
     id |-> Len(db.incidents) + 1]

\* mutant: the UPDATE sets duration_seconds but not ended_at
close_incident_keeps_open(db, incident_id, t) ==
    IF incident_id \notin DOMAIN db.incidents
    THEN [db |-> db, duration |-> 0]
    ELSE LET duration == t - db.incidents[incident_id].started_at
         IN [db |-> [db EXCEPT !.incidents[incident_id].duration_seconds = duration],
             duration |-> duration]

\* mutant: the UPDATE of incidents without WHERE id = ?, for open incidents
close_incident_every_open(db, incident_id, t) ==
    IF incident_id \notin DOMAIN db.incidents
    THEN [db |-> db, duration |-> 0]
    ELSE LET duration == t - db.incidents[incident_id].started_at
         IN [db |-> [db EXCEPT !.incidents =
                        [i \in DOMAIN @ |->
                            IF @[i].ended_at = NULL
                            THEN [@[i] EXCEPT !.ended_at = t,
                                              !.duration_seconds = duration]
                            ELSE @[i]]],
             duration |-> duration]

close_incident(db, incident_id, t) ==
    IF incident_id \notin DOMAIN db.incidents
    THEN [db |-> db, duration |-> 0]
    ELSE LET duration == t - db.incidents[incident_id].started_at
         IN [db |-> [db EXCEPT !.incidents[incident_id].ended_at = t,
                               !.incidents[incident_id].duration_seconds = duration],
             duration |-> duration]

\* Python truth value of an Optional[int]
Truthy(x) == x # NULL /\ x # 0

\* The row an UPDATE ... WHERE site_id = ? changes: the stored one
CurrentRow(db, site_id, state) ==
    IF site_id \in DOMAIN db.sites_state THEN db.sites_state[site_id] ELSE state

\* mutant: DELETE FROM user_mutes without the WHERE clause
delete_mutes_of_all_sites(db, site_id) ==
    [db EXCEPT !.user_mutes = {}]

\* mutant: the recovery leaves the mutes of the site in place
delete_mutes_skipped(db, site_id) ==
    db

\* DELETE FROM user_mutes WHERE site_id = ?
delete_mutes(db, site_id) ==
    [db EXCEPT !.user_mutes = {m \in @ : m.site_id # site_id}]

\* update_on_success, branch old_status == "DOWN"
success_recovers(db, site_id, state, t) ==
    LET closed == IF Truthy(state.current_incident_id)
                  THEN close_incident(db, state.current_incident_id, t)
                  ELSE [db |-> db, duration |-> NULL]
        unmuted == delete_mutes(closed.db, site_id)
    IN [db |-> UpdateRow(unmuted, site_id,
                  [CurrentRow(db, site_id, state) EXCEPT
                      !.status = "UP",
                      !.fail_streak = 0,
                      !.last_status_change = t,
                      !.last_notify_at = t,
                      !.reminder_count = 0,
                      !.next_reminder_at = NULL,
                      !.current_incident_id = NULL]),
        status_changed |-> TRUE, value |-> closed.duration]

\* mutant: the UP branch also stamps last_status_change
success_resets_stamps(db, site_id, state, t) ==
    [db |-> UpdateRow(db, site_id,
               [CurrentRow(db, site_id, state) EXCEPT !.fail_streak = 0,
                                                      !.last_status_change = t]),
     status_changed |-> FALSE, value |-> NULL]

\* update_on_success, branch old_status != "DOWN"
success_resets(db, site_id, state, t) ==
    [db |-> UpdateRow(db, site_id,
               [CurrentRow(db, site_id, state) EXCEPT !.fail_streak = 0]),
     status_changed |-> FALSE, value |-> NULL]

\* the second transaction of update_on_success, on the row read before it
update_on_success_tx(db, site_id, state, t) ==
    IF state.status = "DOWN"
    THEN success_recovers(db, site_id, state, t)
    ELSE success_resets(db, site_id, state, t)

update_on_success(db, site_id, t) ==
    LET g == get_state(db, site_id, t)
    IN update_on_success_tx(g.db, site_id, g.state, t)

\* update_on_failure, branch old_status == "UP" and new_fail_streak >= 1
failure_opens(db, site_id, state, error_type, error_message, t) ==
    LET created == create_incident(db, site_id, error_type, error_message, t)
    IN [db |-> UpdateRow(created.db, site_id,
                  [CurrentRow(db, site_id, state) EXCEPT
                      !.status = "DOWN",
                      !.fail_streak = state.fail_streak + 1,
                      !.last_status_change = t,
                      !.last_notify_at = t,
                      !.reminder_count = 0,
                      !.next_reminder_at = calc_next_reminder(0, t),
                      !.current_incident_id = created.id]),
        status_changed |-> TRUE, value |-> NULL]

\* mutant: a further failure restarts the reminder schedule
failure_counts_reschedules(db, site_id, state, t) ==
    [db |-> UpdateRow(db, site_id,
               [CurrentRow(db, site_id, state) EXCEPT
                   !.fail_streak = state.fail_streak + 1,
                   !.reminder_count = 0,
                   !.next_reminder_at = calc_next_reminder(0, t)]),
     status_changed |-> FALSE, value |-> NULL]

\* mutant: a further failure leaves fail_streak as it is
failure_counts_stays(db, site_id, state, t) ==
    [db |-> UpdateRow(db, site_id, CurrentRow(db, site_id, state)),
     status_changed |-> FALSE, value |-> NULL]

\* update_on_failure, the other branch
failure_counts(db, site_id, state, t) ==
    [db |-> UpdateRow(db, site_id,
               [CurrentRow(db, site_id, state) EXCEPT
                   !.fail_streak = state.fail_streak + 1]),
     status_changed |-> FALSE, value |-> NULL]

\* mutant: the site goes DOWN only once fail_streak reaches retry_count
update_on_failure_tx_hysteresis(db, site_id, state, retry_count, error_type, error_message, t) ==
    IF state.status = "UP" /\ state.fail_streak + 1 >= retry_count
    THEN failure_opens(db, site_id, state, error_type, error_message, t)
    ELSE failure_counts(db, site_id, state, t)

\* mutant: the test of old_status is missing
update_on_failure_tx_unguarded(db, site_id, state, retry_count, error_type, error_message, t) ==
    IF state.fail_streak + 1 >= 1
    THEN failure_opens(db, site_id, state, error_type, error_message, t)
    ELSE failure_counts(db, site_id, state, t)

\* the second transaction of update_on_failure, on the row read before it
update_on_failure_tx(db, site_id, state, retry_count, error_type, error_message, t) ==
    IF state.status = "UP" /\ state.fail_streak + 1 >= 1
    THEN failure_opens(db, site_id, state, error_type, error_message, t)
    ELSE failure_counts(db, site_id, state, t)

update_on_failure(db, site_id, retry_count, error_type, error_message, t) ==
    LET g == get_state(db, site_id, t)
    IN update_on_failure_tx(g.db, site_id, g.state, retry_count,
                            error_type, error_message, t)

\* mutant: the interval returned is that of the old reminder_count
mark_reminder_sent_tx_old_count(db, site_id, state, t) ==
    LET new_count == state.reminder_count + 1
    IN [db |-> UpdateRow(db, site_id,
                  [CurrentRow(db, site_id, state) EXCEPT
                      !.reminder_count = new_count,
                      !.next_reminder_at = calc_next_reminder(new_count, t)]),
        status_changed |-> FALSE,
        value |-> get_next_reminder_interval(state.reminder_count)]

\* the second transaction of mark_reminder_sent, on the row read before it
mark_reminder_sent_tx(db, site_id, state, t) ==
    LET new_count == state.reminder_count + 1
    IN [db |-> UpdateRow(db, site_id,
                  [CurrentRow(db, site_id, state) EXCEPT
                      !.reminder_count = new_count,
                      !.next_reminder_at = calc_next_reminder(new_count, t)]),
        status_changed |-> FALSE,
        value |-> get_next_reminder_interval(new_count)]

mark_reminder_sent(db, site_id, t) ==
    LET g == get_state(db, site_id, t)
    IN mark_reminder_sent_tx(g.db, site_id, g.state, t)

\* mutant: the mute records the time of the mute as the start of the incident
mute_for_user_tx_stamps_now(db, user_id, site_id, state, t) ==
    IF \E m \in db.user_mutes : m.user_id = user_id /\ m.site_id = site_id
    THEN [db |-> db, status_changed |-> FALSE, value |-> NULL]
    ELSE [db |-> [db EXCEPT !.user_mutes = @ \cup
                     {[user_id |-> user_id, site_id |-> site_id,
                       muted_at |-> t, incident_start |-> t]}],
          status_changed |-> TRUE, value |-> NULL]

\* the INSERT of mute_for_user, with the row its get_state returned; the
\* primary key (user_id, site_id) refuses a second mute (IntegrityError)
mute_for_user_tx(db, user_id, site_id, state, t) ==
    IF \E m \in db.user_mutes : m.user_id = user_id /\ m.site_id = site_id
    THEN [db |-> db, status_changed |-> FALSE, value |-> NULL]
    ELSE [db |-> [db EXCEPT !.user_mutes = @ \cup
                     {[user_id |-> user_id, site_id |-> site_id,
                       muted_at |-> t,
                       incident_start |-> state.last_status_change]}],
          status_changed |-> TRUE, value |-> NULL]

mute_for_user(db, user_id, site_id, t) ==
    LET g == get_state(db, site_id, t)
    IN mute_for_user_tx(g.db, user_id, site_id, g.state, t)

\* mutant: DELETE FROM user_mutes WHERE user_id = ? alone
unmute_for_user_all_sites(db, user_id, site_id) ==
    LET rows == {m \in db.user_mutes : m.user_id = user_id}
    IN [db |-> [db EXCEPT !.user_mutes = @ \ rows],
        status_changed |-> Cardinality(rows) > 0, value |-> NULL]

unmute_for_user(db, user_id, site_id) ==
    LET rows == {m \in db.user_mutes : m.user_id = user_id /\ m.site_id = site_id}
    IN [db |-> [db EXCEPT !.user_mutes = @ \ rows],
        status_changed |-> Cardinality(rows) > 0, value |-> NULL]

\* SELECT 1 FROM user_mutes WHERE user_id = ? AND site_id = ?
is_muted(db, user_id, site_id) ==
    \E m \in db.user_mutes : m.user_id = user_id /\ m.site_id = site_id

get_muted_users(db, site_id) ==
    {m.user_id : m \in {x \in db.user_mutes : x.site_id = site_id}}

\* ------------------------------------------------------------------------
\* Specification Spec: any sequence of store calls made one after the other
\* (one caller, every call runs to its end before the next one starts).
\* ------------------------------------------------------------------------
Apply(db) ==
    /\ sites_state' = db.sites_state
    /\ incidents' = db.incidents
    /\ user_mutes' = db.user_mutes

NoTasks == <<>>
NoConns == <<>>

Init ==
    /\ sites_state = <<>>
    /\ incidents = <<>>
    /\ user_mutes = {}
    /\ now = 0
    /\ tasks = NoTasks
    /\ conns = NoConns

Tick ==
    \E d \in Deltas :
        /\ now + d <= MaxTime
        /\ now' = now + d
        /\ UNCHANGED <<sites_state, incidents, user_mutes, tasks, conns>>

CallGetState ==
    \E s \in Sites :
        /\ Apply(get_state(DB, s, now).db)
        /\ UNCHANGED <<now, tasks, conns>>

CallUpdateOnSuccess ==
    \E s \in Sites :
        /\ Apply(update_on_success(DB, s, now).db)
        /\ UNCHANGED <<now, tasks, conns>>

\* the guard keeps the incident table and the fail streak within the bounds
FailureWithinBounds(s) ==
    IF s \in DOMAIN sites_state /\ sites_state[s].status = "DOWN"
    THEN sites_state[s].fail_streak < MaxFailStreak
    ELSE Len(incidents) < MaxIncidents

CallUpdateOnFailure ==
    \E s \in Sites, n \in RetryCounts :
        /\ FailureWithinBounds(s)
        /\ Apply(update_on_failure(DB, s, n, FailureOf(s).error_type,
                                   FailureOf(s).error, now).db)
        /\ UNCHANGED <<now, tasks, conns>>

ReminderWithinBounds(s) ==
    s \in DOMAIN sites_state => sites_state[s].reminder_count < MaxReminders

CallMarkReminderSent ==
    \E s \in Sites :
        /\ ReminderWithinBounds(s)
        /\ Apply(mark_reminder_sent(DB, s, now).db)
        /\ UNCHANGED <<now, tasks, conns>>

CallMute ==
    \E u \in Users, s \in Sites :
        /\ Apply(mute_for_user(DB, u, s, now).db)
        /\ UNCHANGED <<now, tasks, conns>>

CallUnmute ==
    \E u \in Users, s \in Sites :
        /\ Apply(unmute_for_user(DB, u, s).db)
        /\ UNCHANGED <<now, tasks, conns>>

Next ==
    \/ Tick
    \/ CallGetState
    \/ CallUpdateOnSuccess
    \/ CallUpdateOnFailure
    \/ CallMarkReminderSent
    \/ CallMute
    \/ CallUnmute

Spec == Init /\ [][Next]_vars

\* ------------------------------------------------------------------------
\* Specification SpecAsync: the coroutines of the one process.  A coroutine
\* runs alone from one await to the next, so an action is the code between
\* two awaits: it starts when the awaited call returns and ends at the next
\* await.  The awaits are check_with_retry (pc "check"), the notifier's
\* notify_site_up / notify_site_down (pc "notify") and send_reminder
\* (pc "remind"), and asyncio.sleep of the loop (pc "sleep").
\*   loop       MonitorScheduler._run_loop, started by start()
\*   startup    the check_all_sites task main() creates next to the loop
\*   immediate  run_immediate_check, started by the bot
\*   single     check_single_site, started by the bot
\* ------------------------------------------------------------------------
TaskNames == {"loop", "startup", "immediate", "single"}

\* config.default.retry_count and config.scheduler.interval_minutes * 60
RetryCount == 3
IntervalSeconds == 180

\* how many on-demand checks the bot starts in all
MaxOnDemand == 1

Waiting(pc, i, due, wake, runs) ==
    [pc |-> pc, i |-> i, due |-> due, wake |-> wake, runs |-> runs]

\* mutant: next_reminder_at < ? in the place of <=
get_sites_needing_reminder_strict(db, t) ==
    {<<s, db.sites_state[s].reminder_count>> : s \in
        {x \in DOMAIN db.sites_state :
            /\ db.sites_state[x].status = "DOWN"
            /\ db.sites_state[x].next_reminder_at # NULL
            /\ db.sites_state[x].next_reminder_at < t}}

get_sites_needing_reminder(db, t) ==
    {<<s, db.sites_state[s].reminder_count>> : s \in
        {x \in DOMAIN db.sites_state :
            /\ db.sites_state[x].status = "DOWN"
            /\ db.sites_state[x].next_reminder_at # NULL
            /\ db.sites_state[x].next_reminder_at <= t}}

\* The rows of a SELECT without ORDER BY come in an order SQL does not fix
Orders(S) ==
    {q \in UNION {[1..n -> S] : n \in {Cardinality(S)}} :
        \A x \in S : \E j \in DOMAIN q : q[j] = x}

get_downtime_seconds(db, site_id, t) ==
    LET g == get_state(db, site_id, t)
    IN IF g.state.status # "DOWN" THEN 0 ELSE t - g.state.last_status_change

\* _check_pending_reminders from the head of the list due to its next await,
\* or to the sleep of the loop when the list is used up
RECURSIVE check_pending_reminders(_, _, _, _)
check_pending_reminders(db, due, t, runs) ==
    IF due = <<>>
    THEN [db |-> db,
          task |-> Waiting("sleep", 0, <<>>, t + IntervalSeconds, runs)]
    ELSE IF Head(due)[1] \notin Sites
    THEN check_pending_reminders(db, Tail(due), t, runs)
    ELSE [db |-> mark_reminder_sent(db, Head(due)[1], t).db,
          task |-> Waiting("remind", 0, Tail(due), 0, runs)]

\* What a task does once its step for site number task.i is over, up to its
\* next await; order gives the list of due sites as the store returns it
NextSite(k, task, db, t, order) ==
    IF k # "single" /\ task.i < Len(ConfigSites)
    THEN [db |-> db, task |-> Waiting("check", task.i + 1, <<>>, 0, task.runs)]
    ELSE IF k = "loop"
    THEN check_pending_reminders(db, order, t, task.runs)
    ELSE IF k = "startup"
    THEN [db |-> db, task |-> Waiting("done", 0, <<>>, 0, task.runs)]
    ELSE [db |-> db, task |-> Waiting("idle", 0, <<>>, 0, task.runs)]

\* The store call _check_site makes for a check result
record_result(db, site_id, success, t) ==
    IF success
    THEN update_on_success(db, site_id, t)
    ELSE update_on_failure(db, site_id, RetryCount,
             FailureOf(site_id).error_type, FailureOf(site_id).error, t)

\* The notifier call _check_site awaits after the store call that returned r:
\* notify_site_up with the downtime the store returned, notify_site_down, or
\* none when the status did not change
notifier_call(site_id, success, r) ==
    IF ~r.status_changed
    THEN [call |-> "none", site_id |-> site_id, downtime_seconds |-> NULL]
    ELSE IF success
    THEN [call |-> "notify_site_up", site_id |-> site_id,
          downtime_seconds |-> r.value]
    ELSE [call |-> "notify_site_down", site_id |-> site_id,
          downtime_seconds |-> NULL]

\* mutant: the notifier is awaited after every store call
check_site_always_notifies(k, task, db, success, t, order) ==
    [db |-> record_result(db, ConfigSites[task.i], success, t).db,
     task |-> [task EXCEPT !.pc = "notify"]]

\* _check_site and its copies in check_single_site and run_immediate_check,
\* from the return of check_with_retry: the store call and, when the status
\* changed, the await of the notifier; else on to the next site
check_site(k, task, db, success, t, order) ==
    LET r == record_result(db, ConfigSites[task.i], success, t)
    IN IF notifier_call(ConfigSites[task.i], success, r).call # "none"
       THEN [db |-> r.db, task |-> [task EXCEPT !.pc = "notify"]]
       ELSE NextSite(k, task, r.db, t, order)

AsyncInit ==
    /\ sites_state = <<>>
    /\ incidents = <<>>
    /\ user_mutes = {}
    /\ now = 0
    /\ tasks = [k \in TaskNames |->
                  IF k \in {"loop", "startup"}
                  THEN Waiting("check", 1, <<>>, 0, 0)
                  ELSE Waiting("idle", 0, <<>>, 0, 0)]
    /\ conns = NoConns

\* the due list the loop would get from the store db at time t, in any order
DueOrders(k, db, t) ==
    IF k = "loop" THEN Orders(get_sites_needing_reminder(db, t)) ELSE {<<>>}

Resume(k, r) ==
    /\ Apply(r.db)
    /\ tasks' = [tasks EXCEPT ![k] = r.task]
    /\ UNCHANGED <<now, conns>>

\* check_with_retry returns a successful result
CheckSucceeds ==
    \E k \in TaskNames :
        /\ tasks[k].pc = "check"
        /\ \E order \in DueOrders(k, record_result(DB, ConfigSites[tasks[k].i], TRUE, now).db, now) :
              Resume(k, check_site(k, tasks[k], DB, TRUE, now, order))

\* check_with_retry returns a failing result
CheckFails ==
    \E k \in TaskNames :
        /\ tasks[k].pc = "check"
        /\ FailureWithinBounds(ConfigSites[tasks[k].i])
        /\ \E order \in DueOrders(k, record_result(DB, ConfigSites[tasks[k].i], FALSE, now).db, now) :
              Resume(k, check_site(k, tasks[k], DB, FALSE, now, order))

\* notify_site_up or notify_site_down returns
NotifyReturns ==
    \E k \in TaskNames :
        /\ tasks[k].pc = "notify"
        /\ \E order \in DueOrders(k, DB, now) :
              Resume(k, NextSite(k, tasks[k], DB, now, order))

\* send_reminder returns
ReminderReturns ==
    /\ tasks["loop"].pc = "remind"
    /\ Resume("loop", check_pending_reminders(DB, tasks["loop"].due, now,
                                              tasks["loop"].runs))

\* asyncio.sleep(interval_seconds) of _run_loop returns
LoopWakes ==
    /\ tasks["loop"].pc = "sleep"
    /\ now >= tasks["loop"].wake
    /\ tasks' = [tasks EXCEPT !["loop"] = Waiting("check", 1, <<>>, 0, @.runs)]
    /\ UNCHANGED <<sites_state, incidents, user_mutes, now, conns>>

OnDemandRuns == tasks["immediate"].runs + tasks["single"].runs

\* the bot starts run_immediate_check
BotCheckAll ==
    /\ tasks["immediate"].pc = "idle"
    /\ OnDemandRuns < MaxOnDemand
    /\ tasks' = [tasks EXCEPT !["immediate"] = Waiting("check", 1, <<>>, 0, @.runs + 1)]
    /\ UNCHANGED <<sites_state, incidents, user_mutes, now, conns>>

\* the bot starts check_single_site(site_id)
BotCheckNow ==
    \E i \in DOMAIN ConfigSites :
        /\ tasks["single"].pc = "idle"
        /\ OnDemandRuns < MaxOnDemand
        /\ tasks' = [tasks EXCEPT !["single"] = Waiting("check", i, <<>>, 0, @.runs + 1)]
        /\ UNCHANGED <<sites_state, incidents, user_mutes, now, conns>>

\* callback_mute_site up to its first await
BotMute ==
    \E u \in Users, s \in Sites :
        LET g == get_state(DB, s, now)
        IN /\ Apply(IF g.state.status # "DOWN"
                    THEN g.db
                    ELSE mute_for_user(g.db, u, s, now).db)
           /\ UNCHANGED <<now, tasks, conns>>

\* callback_unmute_site up to its first await
BotUnmute ==
    \E u \in Users, s \in Sites :
        /\ Apply(unmute_for_user(DB, u, s).db)
        /\ UNCHANGED <<now, tasks, conns>>

AsyncNext ==
    \/ Tick
    \/ CheckSucceeds
    \/ CheckFails
    \/ NotifyReturns
    \/ ReminderReturns
    \/ LoopWakes
    \/ BotCheckAll
    \/ BotCheckNow
    \/ BotMute
    \/ BotUnmute

SpecAsync == AsyncInit /\ [][AsyncNext]_vars

\* ------------------------------------------------------------------------
\* Specification SpecConns: callers that use the store at the same time, each
\* through connections of its own (threads or processes).  Every
\* _get_connection() block is one SQLite transaction, and a mutating call is
\* made of several: get_state reads the row with a SELECT and, when there is
\* none, inserts the default row; a second block then writes what was
\* computed from the row read.  Another caller's transaction may commit
\* between any two of these steps.
\* ------------------------------------------------------------------------
Callers == {"c1", "c2"}
MutatingCalls == {"update_on_success", "update_on_failure",
                  "mark_reminder_sent", "mute_for_user"}

\* how many calls each caller makes
MaxCalls == 2

Idle(calls) == [pc |-> "idle", op |-> "", site_id |-> "", user_id |-> 0,
                state |-> DefaultState(0), calls |-> calls]

ConnsInit ==
    /\ sites_state = <<>>
    /\ incidents = <<>>
    /\ user_mutes = {}
    /\ now = 0
    /\ tasks = NoTasks
    /\ conns = [c \in Callers |-> Idle(0)]

\* a caller enters a mutating call: the SELECT of get_state
ConnSelect ==
    \E c \in Callers, op \in MutatingCalls, s \in Sites, u \in Users :
        /\ conns[c].pc = "idle"
        /\ conns[c].calls < MaxCalls
        /\ conns' = [conns EXCEPT ![c] =
              [pc |-> IF s \in DOMAIN sites_state THEN "write" ELSE "insert",
               calls |-> conns[c].calls + 1,
               op |-> op, site_id |-> s,
               user_id |-> IF op = "mute_for_user" THEN u ELSE 0,
               state |-> IF s \in DOMAIN sites_state
                         THEN sites_state[s] ELSE DefaultState(now)]]
        /\ UNCHANGED <<sites_state, incidents, user_mutes, now, tasks>>

\* the INSERT of get_state; the primary key refuses a second row of the site
\* (sqlite3.IntegrityError leaves the call)
ConnInsert ==
    \E c \in Callers :
        /\ conns[c].pc = "insert"
        /\ IF conns[c].site_id \in DOMAIN sites_state
           THEN /\ conns' = [conns EXCEPT ![c] = Idle(@.calls)]
                /\ UNCHANGED <<sites_state, incidents, user_mutes>>
           ELSE /\ Apply(get_state(DB, conns[c].site_id, now).db)
                /\ conns' = [conns EXCEPT ![c].pc = "write",
                                          ![c].state = DefaultState(now)]
        /\ UNCHANGED <<now, tasks>>

\* the writing transaction of a call, on the row its get_state returned
WriteOf(c) ==
    LET x == conns[c]
    IN IF x.op = "update_on_success"
       THEN update_on_success_tx(DB, x.site_id, x.state, now)
       ELSE IF x.op = "update_on_failure"
       THEN update_on_failure_tx(DB, x.site_id, x.state, RetryCount,
                FailureOf(x.site_id).error_type, FailureOf(x.site_id).error, now)
       ELSE IF x.op = "mark_reminder_sent"
       THEN mark_reminder_sent_tx(DB, x.site_id, x.state, now)
       ELSE mute_for_user_tx(DB, x.user_id, x.site_id, x.state, now)

ConnWrite ==
    \E c \in Callers :
        /\ conns[c].pc = "write"
        /\ conns[c].op = "update_on_failure" =>
              /\ Len(incidents) < MaxIncidents
              /\ conns[c].state.fail_streak < MaxFailStreak
        /\ conns[c].op = "mark_reminder_sent" =>
              conns[c].state.reminder_count < MaxReminders
        /\ Apply(WriteOf(c).db)
        /\ conns' = [conns EXCEPT ![c] = Idle(@.calls)]
        /\ UNCHANGED <<now, tasks>>

ConnsNext ==
    \/ ConnSelect
    \/ ConnInsert
    \/ ConnWrite

SpecConns == ConnsInit /\ [][ConnsNext]_vars

\* ------------------------------------------------------------------------
\* Specification SpecRetry: one call of check_with_retry, from its entry to
\* its return.  The coroutine waits in check_site (pc "attempt") or in
\* asyncio.sleep (pc "sleep"); both return, check_site because the request
\* has a timeout.  trace lists what the call has awaited so far.
\* ------------------------------------------------------------------------
\* defaults.retry_count goes up to MaxRetries
MaxRetries == 3
\* defaults.retry_interval_minutes
RetryIntervals == {1, 5}

None == [kind |-> "None"]
CheckResult(success, error_type, error) ==
    [kind |-> "CheckResult", success |-> success,
     error_type |-> error_type, error |-> error]

\* what check_site may return
CheckResults ==
    {CheckResult(TRUE, "", "")}
        \cup {CheckResult(FALSE, f.error_type, f.error) : f \in Failures}
        \cup {CheckResult(FALSE, "no_response", "Client error: reset")}

Attempt(result) == [ev |-> "attempt", result |-> result]
Sleep(seconds) == [ev |-> "sleep", seconds |-> seconds]

\* mutant: the first failing result is returned at once
retry_attempt_gives_up(t, result) ==
    [t EXCEPT !.pc = "done", !.returned = result, !.last_result = result,
              !.trace = Append(@, Attempt(result))]

\* mutant: asyncio.sleep after every failing attempt, the last one too
retry_attempt_sleeps_always(t, result) ==
    IF result.success
    THEN [t EXCEPT !.pc = "done", !.returned = result,
                   !.trace = Append(@, Attempt(result))]
    ELSE [t EXCEPT !.pc = "sleep", !.last_result = result,
                   !.trace = Append(Append(@, Attempt(result)),
                                    Sleep(t.retry_interval_minutes * 60))]

\* check_with_retry from the return of check_site to the next await or to
\* the return of the call
retry_attempt(t, result) ==
    IF result.success
    THEN [t EXCEPT !.pc = "done", !.returned = result,
                   !.trace = Append(@, Attempt(result))]
    ELSE IF t.attempt < t.retry_count - 1
    THEN [t EXCEPT !.pc = "sleep", !.last_result = result,
                   !.trace = Append(Append(@, Attempt(result)),
                                    Sleep(t.retry_interval_minutes * 60))]
    ELSE [t EXCEPT !.pc = "done", !.last_result = result,
                   !.returned = result,
                   !.trace = Append(@, Attempt(result))]

\* for attempt in range(retry_count): the next turn of the loop, or the
\* return of last_result when the range is used up
retry_loop(t, attempt) ==
    IF attempt < t.retry_count
    THEN [t EXCEPT !.pc = "attempt", !.attempt = attempt]
    ELSE [t EXCEPT !.pc = "done", !.returned = t.last_result]

RetryInit ==
    /\ sites_state = <<>>
    /\ incidents = <<>>
    /\ user_mutes = {}
    /\ now = 0
    /\ conns = NoConns
    /\ \E n \in 0..MaxRetries, m \in RetryIntervals :
          tasks = [retry |->
                     [pc |-> "start", retry_count |-> n,
                      retry_interval_minutes |-> m, attempt |-> 0,
                      last_result |-> None, returned |-> None,
                      trace |-> <<>>]]

\* the call enters the loop
RetryStart ==
    /\ tasks["retry"].pc = "start"
    /\ tasks' = [tasks EXCEPT !["retry"] = retry_loop(@, 0)]
    /\ UNCHANGED <<sites_state, incidents, user_mutes, now, conns>>

\* check_site returns
AttemptReturns ==
    \E result \in CheckResults :
        /\ tasks["retry"].pc = "attempt"
        /\ tasks' = [tasks EXCEPT !["retry"] = retry_attempt(@, result)]
        /\ UNCHANGED <<sites_state, incidents, user_mutes, now, conns>>

\* asyncio.sleep(retry_interval_seconds) returns
SleepReturns ==
    /\ tasks["retry"].pc = "sleep"
    /\ tasks' = [tasks EXCEPT !["retry"] = retry_loop(@, @.attempt + 1)]
    /\ now' = now + tasks["retry"].retry_interval_minutes * 60
    /\ UNCHANGED <<sites_state, incidents, user_mutes, conns>>

RetryNext ==
    \/ RetryStart
    \/ AttemptReturns
    \/ SleepReturns

SpecRetry == RetryInit /\ [][RetryNext]_vars /\ WF_vars(RetryNext)

\* ------------------------------------------------------------------------
\* Specification SpecSweep: check_all_sites with the exceptions its per-site
\* step can meet.  check_with_retry, the store call and the notifier may each
\* raise instead of returning; check_all_sites catches Exception around every
\* _check_site, logs it and goes on.  steps lists the sites whose step the
\* sweep has entered, errors counts the exceptions it has logged.
\* ------------------------------------------------------------------------
\* how many sweeps are run one after the other
MaxSweeps == 2

Sweeping(pc, i, steps, errors, sweeps) ==
    [pc |-> pc, i |-> i, steps |-> steps, errors |-> errors, sweeps |-> sweeps]

\* for site in self.config.sites: the next site, or the end of the sweep
check_all_sites_next(t) ==
    IF t.i < Len(ConfigSites)
    THEN [t EXCEPT !.pc = "check", !.i = @ + 1,
                   !.steps = Append(@, ConfigSites[t.i + 1])]
    ELSE [t EXCEPT !.pc = "done"]

\* mutant: the exception leaves check_all_sites
check_all_sites_reraises(t) ==
    [t EXCEPT !.pc = "raised", !.errors = @ + 1]

\* except Exception as e: logger.error(...), then on with the loop
check_all_sites_except(t) ==
    check_all_sites_next([t EXCEPT !.errors = @ + 1])

SweepInit ==
    /\ sites_state = <<>>
    /\ incidents = <<>>
    /\ user_mutes = {}
    /\ now = 0
    /\ conns = NoConns
    /\ tasks = [sweep |-> Sweeping("check", 1, <<ConfigSites[1]>>, 0, 1)]

\* check_with_retry returns a result and the store records it
SweepCheckReturns ==
    \E success \in BOOLEAN :
        LET t == tasks["sweep"]
            s == ConfigSites[t.i]
            r == record_result(DB, s, success, now)
        IN /\ t.pc = "check"
           /\ ~success => FailureWithinBounds(s)
           /\ Apply(r.db)
           /\ tasks' = [tasks EXCEPT !["sweep"] =
                 IF notifier_call(s, success, r).call # "none"
                 THEN [t EXCEPT !.pc = "notify"]
                 ELSE check_all_sites_next(t)]
           /\ UNCHANGED <<now, conns>>

\* check_with_retry, or the reading of its result, raises
SweepCheckRaises ==
    /\ tasks["sweep"].pc = "check"
    /\ tasks' = [tasks EXCEPT !["sweep"] = check_all_sites_except(@)]
    /\ UNCHANGED <<sites_state, incidents, user_mutes, now, conns>>

\* the store call raises: in get_state, with nothing written, or in the
\* writing transaction, which is rolled back after get_state has committed
SweepStoreRaises ==
    \E db \in {DB, get_state(DB, ConfigSites[tasks["sweep"].i], now).db} :
        /\ tasks["sweep"].pc = "check"
        /\ Apply(db)
        /\ tasks' = [tasks EXCEPT !["sweep"] = check_all_sites_except(@)]
        /\ UNCHANGED <<now, conns>>

\* notify_site_up or notify_site_down returns
SweepNotifyReturns ==
    /\ tasks["sweep"].pc = "notify"
    /\ tasks' = [tasks EXCEPT !["sweep"] = check_all_sites_next(@)]
    /\ UNCHANGED <<sites_state, incidents, user_mutes, now, conns>>

\* notify_site_up or notify_site_down raises
SweepNotifyRaises ==
    /\ tasks["sweep"].pc = "notify"
    /\ tasks' = [tasks EXCEPT !["sweep"] = check_all_sites_except(@)]
    /\ UNCHANGED <<sites_state, incidents, user_mutes, now, conns>>

\* check_all_sites is called again
SweepAgain ==
    /\ tasks["sweep"].pc = "done"
    /\ tasks["sweep"].sweeps < MaxSweeps
    /\ tasks' = [tasks EXCEPT !["sweep"] =
          Sweeping("check", 1, <<ConfigSites[1]>>, 0, @.sweeps + 1)]
    /\ UNCHANGED <<sites_state, incidents, user_mutes, now, conns>>

SweepNext ==
    \/ Tick
    \/ SweepCheckReturns
    \/ SweepCheckRaises
    \/ SweepStoreRaises
    \/ SweepNotifyReturns
    \/ SweepNotifyRaises
    \/ SweepAgain

SpecSweep == SweepInit /\ [][SweepNext]_vars

\* ------------------------------------------------------------------------
\* The three copies of the per-site step: what each one asks of the store
\* and of the notifier for a result of check_with_retry, and the store it
\* leaves.  Every copy is written out from its own lines of the source.
\* ------------------------------------------------------------------------
RecordSuccess(site_id) ==
    [op |-> "update_on_success", site_id |-> site_id, retry_count |-> NULL,
     error_type |-> "", error_message |-> ""]
RecordFailure(site_id, retry_count, error_type, error_message) ==
    [op |-> "update_on_failure", site_id |-> site_id,
     retry_count |-> retry_count,
     error_type |-> error_type, error_message |-> error_message]
NotifyUp(site_id, result, downtime_seconds) ==
    [call |-> "notify_site_up", site_id |-> site_id, result |-> result,
     downtime_seconds |-> downtime_seconds]
NotifyDown(site_id, result) ==
    [call |-> "notify_site_down", site_id |-> site_id, result |-> result,
     downtime_seconds |-> NULL]
NotifyNobody == [call |-> "none"]
StoreNothing == [op |-> "none"]

\* the store's answer to a call
store_call(db, c, t) ==
    IF c.op = "update_on_success"
    THEN update_on_success(db, c.site_id, t)
    ELSE update_on_failure(db, c.site_id, c.retry_count,
                           c.error_type, c.error_message, t)

\* MonitorScheduler._check_site, after check_with_retry has returned result
check_site_step(db, site_id, result, t) ==
    IF result.success
    THEN LET c == RecordSuccess(site_id)
             r == store_call(db, c, t)
         IN [store |-> c, db |-> r.db,
             notify |-> IF r.status_changed
                        THEN NotifyUp(site_id, result, r.value)
                        ELSE NotifyNobody]
    ELSE LET c == RecordFailure(site_id, RetryCount,
                                result.error_type, result.error)
             r == store_call(db, c, t)
         IN [store |-> c, db |-> r.db,
             notify |-> IF r.status_changed
                        THEN NotifyDown(site_id, result)
                        ELSE NotifyNobody]

\* mutant: check_single_site records the failure but notifies nobody
check_single_site_silent(db, site_id, result, t) ==
    IF site_id \notin Sites
    THEN [store |-> StoreNothing, db |-> db, notify |-> NotifyNobody]
    ELSE IF result.success
    THEN check_site_step(db, site_id, result, t)
    ELSE [check_site_step(db, site_id, result, t)
             EXCEPT !.notify = NotifyNobody]

\* MonitorScheduler.check_single_site, after check_with_retry has returned
\* result; a site_id that is not configured returns None before any check
check_single_site(db, site_id, result, t) ==
    IF site_id \notin Sites
    THEN [store |-> StoreNothing, db |-> db, notify |-> NotifyNobody]
    ELSE IF result.success
    THEN LET c == RecordSuccess(site_id)
             r == store_call(db, c, t)
         IN [store |-> c, db |-> r.db,
             notify |-> IF r.status_changed
                        THEN NotifyUp(site_id, result, r.value)
                        ELSE NotifyNobody]
    ELSE LET c == RecordFailure(site_id, RetryCount,
                                result.error_type, result.error)
             r == store_call(db, c, t)
         IN [store |-> c, db |-> r.db,
             notify |-> IF r.status_changed
                        THEN NotifyDown(site_id, result)
                        ELSE NotifyNobody]

\* the body of the loop of run_immediate_check for one site, after
\* check_with_retry has returned result
run_immediate_check(db, site_id, result, t) ==
    IF result.success
    THEN LET c == RecordSuccess(site_id)
             r == store_call(db, c, t)
         IN [store |-> c, db |-> r.db,
             notify |-> IF r.status_changed
                        THEN NotifyUp(site_id, result, r.value)
                        ELSE NotifyNobody]
    ELSE LET c == RecordFailure(site_id, RetryCount,
                                result.error_type, result.error)
             r == store_call(db, c, t)
         IN [store |-> c, db |-> r.db,
             notify |-> IF r.status_changed
                        THEN NotifyDown(site_id, result)
                        ELSE NotifyNobody]

\* ------------------------------------------------------------------------
\* Specification SpecReminders: the loop of _run_loop seen from its reminder
\* pass.  The sweep ends (or raises), _check_pending_reminders takes the due
\* list and, site by site, reads the downtime and the muted users, marks the
\* reminder and awaits send_reminder, which awaits send_message once per
\* recipient; then the loop sleeps.  While the pass awaits, the checks of
\* other coroutines and the bot go on using the store.  The store file
\* holds the row of a site that was removed from the configuration while it
\* was DOWN.
\* ------------------------------------------------------------------------
\* the clock of the pass moves from one due time to the next, up to here
MaxPassTime == 2700

\* site.notify_users of the configured sites and telegram.admin_ids
notify_users(site_id) ==
    IF site_id = ConfigSites[1] THEN <<1, 2, 1>> ELSE <<>>
admin_ids == <<1>>
\* the users who press the mute button
Muters == {1, 2}
\* how many store calls the other coroutines and the bot make in all
MaxOtherCalls == 2
\* a site that is still in the store but no longer in config.sites
RemovedSite == "old"

Range(q) == {q[i] : i \in DOMAIN q}

SendReminder(site_id, reminder_number, downtime_seconds, next_interval_minutes, user_ids, muted_users) ==
    [site_id |-> site_id, reminder_number |-> reminder_number,
     downtime_seconds |-> downtime_seconds,
     next_interval_minutes |-> next_interval_minutes,
     user_ids |-> user_ids, muted_users |-> muted_users]
NoReminder == SendReminder("", 0, 0, 0, <<>>, {})

\* all_recipients of send_reminder
all_recipients(c) == Range(c.user_ids) \cup Range(admin_ids)

\* mutant: send_reminder is handed the recipients who are not muted only
reminder_step_filters(db, entry, t) ==
    LET site_id == entry[1]
        downtime_seconds == get_downtime_seconds(db, site_id, t)
        muted_users == get_muted_users(db, site_id)
        marked == mark_reminder_sent(db, site_id, t)
    IN [db |-> marked.db,
        call |-> SendReminder(site_id, entry[2] + 1, downtime_seconds,
                    marked.value,
                    SelectSeq(notify_users(site_id),
                              LAMBDA u : u \notin muted_users),
                    {})]

\* mutant: the reminder is marked before the downtime and the mutes are read,
\* and the number is taken from the row after the mark
reminder_step_marks_first(db, entry, t) ==
    LET site_id == entry[1]
        marked == mark_reminder_sent(db, site_id, t)
    IN [db |-> marked.db,
        call |-> SendReminder(site_id,
                    marked.db.sites_state[site_id].reminder_count + 1,
                    get_downtime_seconds(marked.db, site_id, t),
                    get_next_reminder_interval(entry[2]),
                    notify_users(site_id),
                    get_muted_users(marked.db, site_id))]

\* the body of the loop of _check_pending_reminders for one due entry
\* (site_id, reminder_count) of a configured site, up to its await: the
\* three store calls in their order and the send_reminder call it makes
reminder_step(db, entry, t) ==
    LET site_id == entry[1]
        reminder_count == entry[2]
        downtime_seconds == get_downtime_seconds(db, site_id, t)
        muted_users == get_muted_users(db, site_id)
        marked == mark_reminder_sent(db, site_id, t)
        reminder_number == reminder_count + 1
    IN [db |-> marked.db,
        call |-> SendReminder(site_id, reminder_number, downtime_seconds,
                    marked.value, notify_users(site_id), muted_users)]

IsDownIn(db, s) == s \in DOMAIN db.sites_state /\ db.sites_state[s].status = "DOWN"

EmptyStore == [sites_state |-> <<>>, incidents |-> <<>>, user_mutes |-> {}]

\* the store file at the start: the removed site went DOWN at 0
StoreWithRemovedSite ==
    update_on_failure(EmptyStore, RemovedSite, RetryCount,
        FailureOf(RemovedSite).error_type, FailureOf(RemovedSite).error, 0).db

\* the same store after the second configured site went DOWN at 0 and the
\* admin muted it
StoreWithMute ==
    LET s == ConfigSites[2]
        down == update_on_failure(StoreWithRemovedSite, s, RetryCount,
                    FailureOf(s).error_type, FailureOf(s).error, 0).db
    IN mute_for_user(down, admin_ids[1], s, 0).db

Handled(task, outcome) ==
    [task EXCEPT !.handled = Append(@, <<task.entry[1], outcome>>)]

\* mutant: the exception of one site ends the pass
pending_reminders_stop(db, t, task) ==
    [db |-> db,
     task |-> [task EXCEPT !.pc = "sleep", !.due = <<>>, !.entry = <<>>,
                           !.call = NoReminder, !.left = {}, !.sent = <<>>]]

\* except Exception as e: logger.error(...) inside the loop over the due
\* sites; the loop goes on with the entries that are left
RECURSIVE pending_reminders(_, _, _, _)
pending_reminders_except(db, t, task) ==
    pending_reminders(db, t, task, FALSE)

\* the loop of _check_pending_reminders from the head of task.due to the
\* next await of send_reminder, or to the sleep of _run_loop when no entry
\* is left; raising tells that the store raises for the first entry of a
\* configured site
pending_reminders(db, t, task, raising) ==
    IF task.due = <<>>
    THEN [db |-> db,
          task |-> [task EXCEPT !.pc = "sleep", !.entry = <<>>,
                                !.call = NoReminder, !.left = {},
                                !.sent = <<>>]]
    ELSE LET next == [task EXCEPT !.entry = Head(task.due),
                                  !.due = Tail(task.due)]
         IN IF Head(task.due)[1] \notin Sites
            THEN pending_reminders(db, t, Handled(next, "skipped"), raising)
            ELSE IF raising
            THEN pending_reminders_except(db, t, Handled(next, "raised"))
            ELSE LET r == reminder_step(db, Head(task.due), t)
                 IN [db |-> r.db,
                     task |-> [next EXCEPT !.pc = "send", !.call = r.call,
                                           !.left = all_recipients(r.call),
                                           !.sent = <<>>]]

ReminderInit ==
    /\ \E db \in {StoreWithRemovedSite, StoreWithMute} :
          /\ sites_state = db.sites_state
          /\ incidents = db.incidents
          /\ user_mutes = db.user_mutes
    /\ now = 0
    /\ conns = NoConns
    /\ tasks = [pass |->
                  [pc |-> "sweep", snapshot |-> <<>>, handled |-> <<>>,
                   due |-> <<>>, entry |-> <<>>, call |-> NoReminder,
                   left |-> {}, sent |-> <<>>, sweeps |-> 1, passes |-> 0,
                   others |-> 0]]

PassResume(r) ==
    /\ Apply(r.db)
    /\ tasks' = [tasks EXCEPT !["pass"] = r.task]
    /\ UNCHANGED <<now, conns>>

\* check_all_sites returns, or raises into the except of _run_loop; then
\* _check_pending_reminders reads the due list and starts on it
SweepEnds ==
    \E raised, raising \in BOOLEAN,
       order \in Orders(get_sites_needing_reminder(DB, now)) :
        /\ tasks["pass"].pc = "sweep"
        /\ PassResume(pending_reminders(DB, now,
              [tasks["pass"] EXCEPT !.snapshot = order, !.due = order,
                                    !.handled = <<>>, !.passes = @ + 1],
              raising))

\* send_reminder takes the next recipient: skipped when muted, else
\* send_message is awaited (whether it succeeds or not)
ReminderDelivers ==
    \E u \in tasks["pass"].left :
        /\ tasks["pass"].pc = "send"
        /\ tasks' = [tasks EXCEPT !["pass"] =
              [@ EXCEPT !.left = @ \ {u},
                        !.sent = IF u \in tasks["pass"].call.muted_users
                                 THEN @ ELSE Append(@, u)]]
        /\ UNCHANGED <<sites_state, incidents, user_mutes, now, conns>>

\* send_reminder returns after its last recipient
SendReminderReturns ==
    \E raising \in BOOLEAN :
        /\ tasks["pass"].pc = "send"
        /\ tasks["pass"].left = {}
        /\ PassResume(pending_reminders(DB, now,
              Handled(tasks["pass"], "sent"), raising))

\* send_reminder raises
SendReminderRaises ==
    /\ tasks["pass"].pc = "send"
    /\ PassResume(pending_reminders_except(DB, now,
          Handled(tasks["pass"], "raised")))

\* asyncio.sleep of _run_loop returns
PassLoopWakes ==
    /\ tasks["pass"].pc = "sleep"
    /\ tasks["pass"].sweeps < MaxSweeps
    /\ tasks' = [tasks EXCEPT !["pass"] =
          [@ EXCEPT !.pc = "sweep", !.sweeps = @ + 1]]
    /\ UNCHANGED <<sites_state, incidents, user_mutes, now, conns>>

\* one more store call from outside the pass that changes the store, within
\* the bound
OtherCall(db) ==
    /\ tasks["pass"].others < MaxOtherCalls
    /\ db # DB
    /\ Apply(db)
    /\ tasks' = [tasks EXCEPT !["pass"].others = @ + 1]
    /\ UNCHANGED <<now, conns>>

\* a check of another coroutine, or of the sweep, finds a site that is not
\* DOWN failing (the failure of a DOWN site changes its fail_streak alone,
\* which the pass does not read)
OtherCheckFails ==
    \E s \in Sites :
        /\ ~IsDownIn(DB, s)
        /\ Len(incidents) <= MaxIncidents
        /\ OtherCall(record_result(DB, s, FALSE, now).db)

\* a check of another coroutine, or of the sweep, records a success
OtherCheckSucceeds ==
    \E s \in Sites :
        OtherCall(record_result(DB, s, TRUE, now).db)

\* callback_mute_site and callback_unmute_site of the bot
PassMute ==
    \E u \in Muters, s \in Sites :
        /\ IsDownIn(DB, s)
        /\ OtherCall(mute_for_user(DB, u, s, now).db)

PassUnmute ==
    \E u \in Muters, s \in Sites :
        OtherCall(unmute_for_user(DB, u, s).db)

\* the clock reaches the next due time of some site
PassTick ==
    \E s \in DOMAIN sites_state :
        /\ sites_state[s].next_reminder_at # NULL
        /\ sites_state[s].next_reminder_at > now
        /\ sites_state[s].next_reminder_at <= MaxPassTime
        /\ now' = sites_state[s].next_reminder_at
        /\ UNCHANGED <<sites_state, incidents, user_mutes, tasks, conns>>

RemindersNext ==
    \/ SweepEnds
    \/ ReminderDelivers
    \/ SendReminderReturns
    \/ SendReminderRaises
    \/ PassLoopWakes
    \/ OtherCheckFails
    \/ OtherCheckSucceeds
    \/ PassMute
    \/ PassUnmute
    \/ PassTick

SpecReminders == ReminderInit /\ [][RemindersNext]_vars

\* ------------------------------------------------------------------------
\* SpecNotify: one coroutine runs _check_site again and again; the
\* notification it awaits is followed recipient by recipient.  send_message
\* returns True, returns False for an answer other than 200, or catches the
\* exception of the transport and returns False.  attempts lists the
\* send_message calls of the current notification with their outcomes,
\* committed is the store as the store call of the step left it.
\* ------------------------------------------------------------------------
\* how many times _check_site is entered
MaxNotifyChecks == 3

\* what send_message can come to
SendOutcomes == {"sent", "refused", "error"}

\* the value send_message returns
send_message(outcome) == outcome = "sent"

\* TelegramNotifier._get_all_recipients with user_ids = None
get_all_recipients(site_id) ==
    Range(notify_users(site_id)) \cup Range(admin_ids)

NotifyTask(pc, call, left, attempts, committed, checks) ==
    [pc |-> pc, call |-> call, left |-> left, attempts |-> attempts,
     committed |-> committed, checks |-> checks]

\* mutant: a failed send_message ends the loop over the recipients
notify_loop_breaks(task, user_id, outcome) ==
    [task EXCEPT !.left = IF send_message(outcome) THEN @ \ {user_id} ELSE {},
                 !.attempts = Append(@, <<user_id, outcome>>)]

\* one turn of "for user_id in recipients": send_message is awaited and
\* its value is logged
notify_loop(task, user_id, outcome) ==
    [task EXCEPT !.left = @ \ {user_id},
                 !.attempts = Append(@, <<user_id, outcome>>)]

\* mutant: the store call is made after the notifier has returned
check_site_notifies_first(task, db, site_id, success, t) ==
    LET r == record_result(db, site_id, success, t)
        n == notifier_call(site_id, success, r)
    IN [db |-> IF n.call = "none" THEN r.db ELSE db,
        task |-> IF n.call = "none"
                 THEN [task EXCEPT !.pc = "check", !.committed = r.db]
                 ELSE NotifyTask("deliver", n, get_all_recipients(site_id),
                                 <<>>, r.db, task.checks)]

\* _check_site from the return of check_with_retry to the await of the
\* notifier, or to its end when the status did not change
check_site_commits(task, db, site_id, success, t) ==
    LET r == record_result(db, site_id, success, t)
        n == notifier_call(site_id, success, r)
    IN [db |-> r.db,
        task |-> IF n.call = "none"
                 THEN [task EXCEPT !.pc = "check", !.committed = r.db]
                 ELSE NotifyTask("deliver", n, get_all_recipients(site_id),
                                 <<>>, r.db, task.checks)]

NotifyInit ==
    /\ sites_state = <<>>
    /\ incidents = <<>>
    /\ user_mutes = {}
    /\ now = 0
    /\ conns = NoConns
    /\ tasks = [notify |->
          NotifyTask("check", notifier_call("", TRUE, [status_changed |-> FALSE]),
                     {}, <<>>, EmptyStore, 0)]

\* check_with_retry returns and the store records the result
NotifyCheckReturns ==
    \E s \in Sites, success \in BOOLEAN :
        LET t == tasks["notify"]
            r == check_site_commits([t EXCEPT !.checks = @ + 1],
                                    DB, s, success, now)
        IN /\ t.pc = "check"
           /\ t.checks < MaxNotifyChecks
           /\ ~success => FailureWithinBounds(s)
           /\ Apply(r.db)
           /\ tasks' = [tasks EXCEPT !["notify"] = r.task]
           /\ UNCHANGED <<now, conns>>

\* send_message for the next recipient comes to its outcome
NotifyDelivers ==
    \E u \in tasks["notify"].left, outcome \in SendOutcomes :
        /\ tasks["notify"].pc = "deliver"
        /\ tasks' = [tasks EXCEPT !["notify"] = notify_loop(@, u, outcome)]
        /\ UNCHANGED <<sites_state, incidents, user_mutes, now, conns>>

\* notify_site_up or notify_site_down returns after its last recipient
NotifyDone ==
    /\ tasks["notify"].pc = "deliver"
    /\ tasks["notify"].left = {}
    /\ tasks' = [tasks EXCEPT !["notify"].pc = "check"]
    /\ UNCHANGED <<sites_state, incidents, user_mutes, now, conns>>

\* the notifier raises outside the try of send_message; the exception
\* leaves _check_site
NotifyRaises ==
    /\ tasks["notify"].pc = "deliver"
    /\ tasks' = [tasks EXCEPT !["notify"].pc = "check",
                              !["notify"].left = {}]
    /\ UNCHANGED <<sites_state, incidents, user_mutes, now, conns>>

NotifyNext ==
    \/ Tick
    \/ NotifyCheckReturns
    \/ NotifyDelivers
    \/ NotifyDone
    \/ NotifyRaises

SpecNotify == NotifyInit /\ [][NotifyNext]_vars

\* ------------------------------------------------------------------------
\* SpecStats: checks open and close incidents while the clock moves by an
\* hour or by days, and get_site_stats is read in every state.  Times are
\* whole seconds, so the int() of calc_downtime cuts nothing off; the
\* second reading of the clock in get_site_incidents is taken to give the
\* same time as the one of get_site_stats.  In the mode "flap" the first
\* site changes its status with every check, one second apart.
\* ------------------------------------------------------------------------
\* how many incidents a history has, how often its clock moves, and how
\* many incidents the flapping site opens
MaxStatsIncidents == 2
MaxStatsTicks == 3
MaxFlaps == 101

\* the steps of the clock in a history
StatsDeltas == {3600, 7 * 86400, 24 * 86400}

\* timedelta(days=days) in seconds
Days(days) == days * 86400

\* limit: int = 100 of get_site_incidents
DefaultLimit == 100

\* ORDER BY started_at DESC: the row of id a comes before the row of id b;
\* rows of the same started_at are ordered by id, the later first
StartedBefore(db, a, b) ==
    \/ db.incidents[a].started_at > db.incidents[b].started_at
    \/ /\ db.incidents[a].started_at = db.incidents[b].started_at
       /\ a > b

\* ORDER BY started_at DESC of the rows in ids among the first n of the table
OrderByStartedDesc(db, ids, n) ==
    LET among == {i \in ids : i <= n}
        place == [i \in among |->
                    1 + Cardinality({j \in among : StartedBefore(db, j, i)})]
    IN [k \in 1..Cardinality(among) |-> CHOOSE i \in among : place[i] = k]

\* the row of an incident with its id
Incident(db, id) == [id |-> id] @@ db.incidents[id]

\* SELECT * FROM incidents WHERE site_id = ? AND started_at >= ?
\* ORDER BY started_at DESC LIMIT ?
get_site_incidents(db, site_id, days, limit, t) ==
    LET since == t - Days(days)
        ids == {i \in DOMAIN db.incidents :
                   /\ db.incidents[i].site_id = site_id
                   /\ db.incidents[i].started_at >= since}
        rows == OrderByStartedDesc(db, ids, Len(db.incidents))
    IN [j \in 1..Min(limit, Len(rows)) |-> Incident(db, rows[j])]

Max(x, y) == IF x >= y THEN x ELSE y

\* mutant: every incident is taken to last until now
RECURSIVE calc_downtime_to_now(_, _, _)
calc_downtime_to_now(incs, days, t) ==
    IF incs = <<>>
    THEN 0
    ELSE LET started == Max(Head(incs).started_at, t - Days(days))
         IN (IF t > started THEN t - started ELSE 0)
               + calc_downtime_to_now(Tail(incs), days, t)

\* calc_downtime of get_site_stats
RECURSIVE calc_downtime(_, _, _)
calc_downtime(incs, days, t) ==
    IF incs = <<>>
    THEN 0
    ELSE LET inc == Head(incs)
             period_start == t - Days(days)
             started == Max(inc.started_at, period_start)
             ended == Min(IF inc.ended_at # NULL THEN inc.ended_at ELSE t, t)
         IN (IF ended > started THEN ended - started ELSE 0)
               + calc_downtime(Tail(incs), days, t)

\* n / m rounded to the nearest whole number, a half to the even one
RoundHalfEven(n, m) ==
    LET q == n \div m
        r == n % m
    IN IF 2 * r < m THEN q
       ELSE IF 2 * r > m THEN q + 1
       ELSE IF q % 2 = 0 THEN q ELSE q + 1

\* round(100 * (1 - downtime / total), 2) in hundredths of a percent:
\* 10000 * (total - downtime) / total with total = days * 86400, reduced
\* by 400
uptime(downtime, days) ==
    RoundHalfEven(25 * (Days(days) - downtime), 216 * days)

RECURSIVE SumDurations(_)
SumDurations(incs) ==
    IF incs = <<>> THEN 0
    ELSE Head(incs).duration_seconds + SumDurations(Tail(incs))

\* Database.get_site_stats; downtime_7d and downtime_30d are its local
\* variables, the uptimes are in hundredths of a percent
get_site_stats(db, site_id, t) ==
    LET incidents_7d == get_site_incidents(db, site_id, 7, DefaultLimit, t)
        incidents_30d == get_site_incidents(db, site_id, 30, DefaultLimit, t)
        downtime_7d == calc_downtime(incidents_7d, 7, t)
        downtime_30d == calc_downtime(incidents_30d, 30, t)
        closed_incidents == SelectSeq(incidents_30d,
                                LAMBDA i : Truthy(i.duration_seconds))
    IN [site_id |-> site_id,
        downtime_7d |-> downtime_7d,
        downtime_30d |-> downtime_30d,
        uptime_7d |-> uptime(downtime_7d, 7),
        uptime_30d |-> uptime(downtime_30d, 30),
        incidents_30d |-> Len(incidents_30d),
        avg_downtime_seconds |->
            IF closed_incidents # <<>>
            THEN SumDurations(closed_incidents) \div Len(closed_incidents)
            ELSE 0,
        last_incident_at |-> IF incidents_30d # <<>>
                             THEN incidents_30d[1].started_at ELSE NULL]

StatsModes == {"history", "flap"}

StatsInit ==
    /\ sites_state = <<>>
    /\ incidents = <<>>
    /\ user_mutes = {}
    /\ now = 0
    /\ conns = NoConns
    /\ \E mode \in StatsModes : tasks = [stats |-> [mode |-> mode, ticks |-> 0]]

Flapping == tasks["stats"].mode = "flap"

\* the flapping site is checked once in every second
FlapChecked(s) == s \in DOMAIN sites_state /\ sites_state[s].last_status_change = now

\* the sites that are checked
StatsSites == IF Flapping THEN {ConfigSites[1]} ELSE Sites

\* a check finds a site that is not DOWN failing
StatsCheckFails ==
    \E s \in StatsSites :
        /\ ~IsDownIn(DB, s)
        /\ Len(incidents) < (IF Flapping THEN MaxFlaps ELSE MaxStatsIncidents)
        /\ Flapping => ~FlapChecked(s)
        /\ Apply(record_result(DB, s, FALSE, now).db)
        /\ UNCHANGED <<now, tasks, conns>>

\* a check finds a DOWN site answering
StatsCheckSucceeds ==
    \E s \in StatsSites :
        /\ IsDownIn(DB, s)
        /\ Flapping => ~FlapChecked(s)
        /\ Apply(record_result(DB, s, TRUE, now).db)
        /\ UNCHANGED <<now, tasks, conns>>

StatsTick ==
    \E d \in (IF Flapping THEN {1} ELSE StatsDeltas) :
        /\ IF Flapping
           THEN FlapChecked(ConfigSites[1])
           ELSE tasks["stats"].ticks < MaxStatsTicks
        /\ now' = now + d
        /\ tasks' = [tasks EXCEPT !["stats"].ticks = @ + 1]
        /\ UNCHANGED <<sites_state, incidents, user_mutes, conns>>

StatsNext ==
    \/ StatsCheckFails
    \/ StatsCheckSucceeds
    \/ StatsTick

SpecStats == StatsInit /\ [][StatsNext]_vars

\* ------------------------------------------------------------------------
\* SpecKeywords: check_keywords on every body and every keyword list within
\* the bounds, followed turn by turn of its loop.  A text is a sequence of
\* letters.
\* ------------------------------------------------------------------------
\* the longest body, the longest keyword and the longest keyword list
MaxBodyLen == 3
MaxKeywordLen == 2
MaxKeywords == 2

Letters == {"A", "B"}

\* the texts of at most n letters
Texts(n) == UNION {[1..k -> Letters] : k \in 0..n}

\* the lists of at most n keywords
KeywordLists(n) == UNION {[1..k -> Texts(MaxKeywordLen)] : k \in 0..n}

\* keyword in html_content
IsSubstring(keyword, html_content) ==
    \E i \in 0..(Len(html_content) - Len(keyword)) :
        SubSeq(html_content, i + 1, i + Len(keyword)) = keyword

KeywordCheckResult(found, missing_keyword, found_keywords) ==
    [found |-> found, missing_keyword |-> missing_keyword,
     found_keywords |-> found_keywords]

\* mutant: the loop of check_keywords_any, which goes on after a keyword
\* that is not there
check_keywords_goes_on(t) ==
    IF t.i > Len(t.keywords)
    THEN [t EXCEPT !.pc = "returned",
                   !.result = KeywordCheckResult(TRUE, None, t.found_keywords)]
    ELSE IF IsSubstring(t.keywords[t.i], t.html_content)
    THEN [t EXCEPT !.i = @ + 1,
                   !.found_keywords = Append(@, t.keywords[t.i])]
    ELSE [t EXCEPT !.i = @ + 1]

\* check_keywords from its entry or from the head of its loop to the head
\* of the next turn or to its return
check_keywords_next(t) ==
    IF t.keywords = <<>>
    THEN [t EXCEPT !.pc = "returned",
                   !.result = KeywordCheckResult(TRUE, None, <<>>)]
    ELSE IF t.i > Len(t.keywords)
    THEN [t EXCEPT !.pc = "returned",
                   !.result = KeywordCheckResult(TRUE, None, t.found_keywords)]
    ELSE IF IsSubstring(t.keywords[t.i], t.html_content)
    THEN [t EXCEPT !.i = @ + 1,
                   !.found_keywords = Append(@, t.keywords[t.i])]
    ELSE [t EXCEPT !.pc = "returned",
                   !.result = KeywordCheckResult(FALSE, t.keywords[t.i],
                                                 t.found_keywords)]

KeywordsInit ==
    /\ sites_state = <<>>
    /\ incidents = <<>>
    /\ user_mutes = {}
    /\ now = 0
    /\ conns = NoConns
    /\ \E html_content \in Texts(MaxBodyLen), keywords \in KeywordLists(MaxKeywords) :
          tasks = [kw |-> [pc |-> "scan", html_content |-> html_content,
                           keywords |-> keywords, i |-> 1,
                           found_keywords |-> <<>>, result |-> None]]

KeywordsStep ==
    /\ tasks["kw"].pc = "scan"
    /\ tasks' = [tasks EXCEPT !["kw"] = check_keywords_next(@)]
    /\ UNCHANGED <<sites_state, incidents, user_mutes, now, conns>>

\* if not keywords: return
KeywordsEmpty ==
    /\ tasks["kw"].keywords = <<>>
    /\ KeywordsStep

\* the keyword of this turn is in the body
KeywordFound ==
    /\ tasks["kw"].i \in DOMAIN tasks["kw"].keywords
    /\ IsSubstring(tasks["kw"].keywords[tasks["kw"].i], tasks["kw"].html_content)
    /\ KeywordsStep

\* the keyword of this turn is not in the body
KeywordMissing ==
    /\ tasks["kw"].i \in DOMAIN tasks["kw"].keywords
    /\ ~IsSubstring(tasks["kw"].keywords[tasks["kw"].i], tasks["kw"].html_content)
    /\ KeywordsStep

\* the loop has gone through a list that is not empty
KeywordsAllFound ==
    /\ tasks["kw"].keywords # <<>>
    /\ tasks["kw"].i > Len(tasks["kw"].keywords)
    /\ KeywordsStep

KeywordsNext ==
    \/ KeywordsEmpty
    \/ KeywordFound
    \/ KeywordMissing
    \/ KeywordsAllFound

SpecKeywords == KeywordsInit /\ [][KeywordsNext]_vars

\* ------------------------------------------------------------------------
\* SpecHostname: _hostname_matches_cert on every hostname and certificate
\* within the bounds, followed name by name.  A text is a sequence of
\* characters; "U+044F" and "U+042F" stand for the Cyrillic small and
\* capital letter ya, the characters outside ASCII.
\* ------------------------------------------------------------------------
\* the most labels a hostname has
MaxHostLabels == 3

Dot == <<".">>

\* the labels of the hostnames; the empty one gives the hostnames with a
\* dot at an end or with two dots in a row
HostLabels == {<<"a">>, <<"A">>, <<"b">>, <<"U+044F">>, <<"U+042F">>, <<>>}

\* the labels of the names of a certificate
NameLabels == {<<"a">>, <<"A">>, <<"b">>, <<"x", "n", "-", "-", "4", "1", "a">>}

\* ".".join(labels)
RECURSIVE Join(_)
Join(labels) ==
    IF labels = <<>> THEN <<>>
    ELSE IF Len(labels) = 1 THEN labels[1]
    ELSE labels[1] \o Dot \o Join(Tail(labels))

Hostnames ==
    {Join(labels) : labels \in UNION {[1..k -> HostLabels] : k \in 1..MaxHostLabels}}

\* the names of a certificate: none, one or two labels, with or without
\* "*." in front
CertNames ==
    LET domains == {Join(labels) : labels \in UNION {[1..k -> NameLabels] : k \in 0..2}}
    IN domains \cup {<<"*", ".">> \o d : d \in domains}

\* the CN of the certificates: none, empty, a wildcard name
CommonNames == {None, <<>>, <<"*", ".", "b">>}

\* the SAN lists of the certificates
SanLists == {<<>>} \cup {<<name>> : name \in CertNames}

\* the place of the first dot of a text, 0 when it has none
FirstDot(text) ==
    IF \E i \in DOMAIN text : text[i] = "."
    THEN CHOOSE i \in DOMAIN text :
             text[i] = "." /\ \A j \in 1..(i - 1) : text[j] # "."
    ELSE 0

\* text.split(".")
RECURSIVE Split(_)
Split(text) ==
    IF FirstDot(text) = 0
    THEN <<text>>
    ELSE <<SubSeq(text, 1, FirstDot(text) - 1)>>
            \o Split(SubSeq(text, FirstDot(text) + 1, Len(text)))

\* text.split(".", 1)
split_once(text) ==
    IF FirstDot(text) = 0
    THEN <<text>>
    ELSE <<SubSeq(text, 1, FirstDot(text) - 1),
           SubSeq(text, FirstDot(text) + 1, Len(text))>>

\* str.lower
lower(text) ==
    [i \in DOMAIN text |->
        IF text[i] = "A" THEN "a" ELSE IF text[i] = "U+042F" THEN "U+044F" ELSE text[i]]

IsAscii(text) == \A i \in DOMAIN text : text[i] \notin {"U+044F", "U+042F"}

\* ToASCII of the idna codec for one label: an ASCII label stays as it is,
\* another one is case-folded by nameprep and encoded with "xn--" in
\* front; the label of the one letter U+044F, the only one of the hostnames
\* here that is not ASCII, has the Punycode "41a"
ToASCII(label) ==
    IF IsAscii(label)
    THEN label
    ELSE IF lower(label) = <<"U+044F">>
    THEN <<"x", "n", "-", "-", "4", "1", "a">>
    ELSE lower(label)

\* the idna codec raises UnicodeError for an empty label that is not the
\* last one
IdnaError(hostname) ==
    LET labels == Split(hostname)
    IN \E i \in 1..(Len(labels) - 1) : labels[i] = <<>>

\* mutant: the conversion that leaves every hostname as it is
to_punycode_identity(hostname) == hostname

\* _to_punycode: hostname.encode('idna').decode('ascii'), the hostname
\* itself after a UnicodeError
to_punycode(hostname) ==
    IF IdnaError(hostname)
    THEN hostname
    ELSE LET labels == Split(hostname)
         IN Join([i \in DOMAIN labels |-> ToASCII(labels[i])])

IsWildcard(name) == Len(name) >= 2 /\ SubSeq(name, 1, 2) = <<"*", ".">>

\* mutant: the wildcard stands for any number of labels
name_matches_any_depth(name, hostname) ==
    LET name_lower == lower(name)
        hostnames_to_check == {lower(hostname), lower(to_punycode(hostname))}
    IN IF IsWildcard(name_lower)
       THEN \E h \in hostnames_to_check : \E k \in DOMAIN h :
               /\ h[k] = "."
               /\ SubSeq(h, k + 1, Len(h)) = SubSeq(name_lower, 3, Len(name_lower))
       ELSE name_lower \in hostnames_to_check

\* one turn of the loop over all_names: does this name let
\* _hostname_matches_cert return True
name_matches(name, hostname) ==
    LET name_lower == lower(name)
        hostnames_to_check == {lower(hostname), lower(to_punycode(hostname))}
    IN IF IsWildcard(name_lower)
       THEN LET wildcard_domain == SubSeq(name_lower, 3, Len(name_lower))
            IN \E h \in hostnames_to_check :
                  LET parts == split_once(h)
                  IN Len(parts) = 2 /\ parts[2] = wildcard_domain
       ELSE name_lower \in hostnames_to_check

\* all_names = san_list.copy(); if cn: all_names.append(cn)
all_names(cn, san_list) ==
    IF cn # None /\ cn # <<>> THEN Append(san_list, cn) ELSE san_list

HostnameInit ==
    /\ sites_state = <<>>
    /\ incidents = <<>>
    /\ user_mutes = {}
    /\ now = 0
    /\ conns = NoConns
    /\ \E hostname \in Hostnames, cn \in CommonNames, san_list \in SanLists :
          tasks = [match |-> [pc |-> "scan", hostname |-> hostname, cn |-> cn,
                              san_list |-> san_list, i |-> 1,
                              result |-> FALSE]]

\* the name of this turn matches: return True
NameMatches ==
    LET t == tasks["match"]
        names == all_names(t.cn, t.san_list)
    IN /\ t.pc = "scan"
       /\ t.i \in DOMAIN names
       /\ name_matches(names[t.i], t.hostname)
       /\ tasks' = [tasks EXCEPT !["match"].pc = "returned",
                                 !["match"].result = TRUE]
       /\ UNCHANGED <<sites_state, incidents, user_mutes, now, conns>>

\* the name of this turn does not match: on to the next one
NameDiffers ==
    LET t == tasks["match"]
        names == all_names(t.cn, t.san_list)
    IN /\ t.pc = "scan"
       /\ t.i \in DOMAIN names
       /\ ~name_matches(names[t.i], t.hostname)
       /\ tasks' = [tasks EXCEPT !["match"].i = @ + 1]
       /\ UNCHANGED <<sites_state, incidents, user_mutes, now, conns>>

\* no name is left: return False
NamesExhausted ==
    LET t == tasks["match"]
    IN /\ t.pc = "scan"
       /\ t.i > Len(all_names(t.cn, t.san_list))
       /\ tasks' = [tasks EXCEPT !["match"].pc = "returned",
                                 !["match"].result = FALSE]
       /\ UNCHANGED <<sites_state, incidents, user_mutes, now, conns>>

HostnameNext ==
    \/ NameMatches
    \/ NameDiffers
    \/ NamesExhausted

SpecHostname == HostnameInit /\ [][HostnameNext]_vars

\* ------------------------------------------------------------------------
\* SpecChecker: check_site for every site configuration and every outcome
\* of the HTTP request and of the TLS inspection within the sets below.
\* layers lists what the call has gone through: the request, the status
\* test, check_ssl, check_keywords.
\* ------------------------------------------------------------------------
\* response.status and site.expected_code
StatusCodes == {200, 500}
ExpectedCodes == {200}

\* int((time.time() - start_time) * 1000)
ResponseTimes == {120}

\* response.text()
Bodies == {<<"A">>, <<"B">>}

\* site.keywords
SiteKeywords == {<<>>, <<<<"A">>>>, <<<<"A">>, <<"B">>>>}

\* site.url as the text up to the hostname and the hostname
Urls ==
    {[scheme |-> "http://", hostname |-> <<"a", ".", "b">>],
     [scheme |-> "https://", hostname |-> <<"a", ".", "b">>],
     [scheme |-> "https://", hostname |-> <<"A", ".", "a", ".", "b">>],
     [scheme |-> "HTTPS://", hostname |-> <<"a", ".", "b">>]}

SiteConfigs ==
    [url : Urls, check_ssl : BOOLEAN, check_http_code : BOOLEAN,
     expected_code : ExpectedCodes, keywords : SiteKeywords]

\* what session.get or response.text() raises, by the except clause that
\* takes it; "Exception" is everything else, asyncio.TimeoutError of the
\* total timeout and UnicodeDecodeError of text() among it
RequestExceptions ==
    {"ClientConnectorError", "ServerTimeoutError", "ClientError", "Exception"}

\* what _get_certificate_binary or _parse_certificate raises, by the except
\* clause of check_ssl that takes it
SslExceptions == {"SSLError", "socket.timeout", "socket.gaierror", "Exception"}

\* (expiry_date - now).days of the certificates
DaysUntilExpiry == {-1, 0, 30}

\* the outcomes of fetching and parsing the certificate
CertOutcomes ==
    [raised : SslExceptions]
        \cup [days_until_expiry : DaysUntilExpiry, cn : {None},
              san_list : {<<>>, <<<<"*", ".", "b">>>>}]

\* CheckResult with the fields check_site sets
SiteCheckResult(success, status_code, response_time_ms, error, error_type) ==
    [kind |-> "CheckResult", success |-> success, status_code |-> status_code,
     response_time_ms |-> response_time_ms, error |-> error,
     error_type |-> error_type]

SSLCheckResult(valid, error, error_type) ==
    [valid |-> valid, error |-> error, error_type |-> error_type]

\* _hostname_matches_cert, all turns of its loop
hostname_matches_cert(hostname, cn, san_list) ==
    \E j \in DOMAIN all_names(cn, san_list) :
        name_matches(all_names(cn, san_list)[j], hostname)

\* check_ssl from the outcome of fetching and parsing the certificate
check_ssl(hostname, cert) ==
    IF "raised" \in DOMAIN cert
    THEN IF cert.raised = "SSLError"
         THEN SSLCheckResult(FALSE, "SSL error", "ssl_expired")
         ELSE IF cert.raised = "socket.timeout"
         THEN SSLCheckResult(FALSE, "SSL timeout", "ssl_expired")
         ELSE IF cert.raised = "socket.gaierror"
         THEN SSLCheckResult(FALSE, "DNS error", "ssl_mismatch")
         ELSE SSLCheckResult(FALSE, "SSL check error", "ssl_expired")
    ELSE IF cert.days_until_expiry < 0
    THEN SSLCheckResult(FALSE, "certificate expired", "ssl_expired")
    ELSE IF ~hostname_matches_cert(hostname, cert.cn, cert.san_list)
    THEN SSLCheckResult(FALSE, "certificate of another domain", "ssl_mismatch")
    ELSE SSLCheckResult(TRUE, None, None)

\* check_keywords, all turns of its loop
RECURSIVE check_keywords_run(_)
check_keywords_run(t) ==
    IF t.pc = "returned" THEN t.result
    ELSE check_keywords_run(check_keywords_next(t))

check_keywords(html_content, keywords) ==
    check_keywords_run([pc |-> "scan", html_content |-> html_content,
                        keywords |-> keywords, i |-> 1,
                        found_keywords |-> <<>>, result |-> None])

\* mutant: without the last clause, except Exception
check_site_except_narrow(t, exc) ==
    IF exc = "Exception"
    THEN [t EXCEPT !.pc = "raised"]
    ELSE [t EXCEPT !.pc = "returned",
                   !.result = SiteCheckResult(FALSE, None, t.response_time_ms,
                                              "Client error", "no_response")]

\* the except clauses of check_site
check_site_except(t, exc) ==
    [t EXCEPT !.pc = "returned",
              !.result =
                 IF exc = "ClientConnectorError"
                 THEN SiteCheckResult(FALSE, None, t.response_time_ms,
                                      "Connection error", "no_response")
                 ELSE IF exc = "ServerTimeoutError"
                 THEN SiteCheckResult(FALSE, None, t.response_time_ms,
                                      "Timeout", "timeout")
                 ELSE IF exc = "ClientError"
                 THEN SiteCheckResult(FALSE, None, t.response_time_ms,
                                      "Client error", "no_response")
                 ELSE SiteCheckResult(FALSE, None, t.response_time_ms,
                                      "Unexpected error", "no_response")]

\* check_site from "if site.keywords" to its return
check_site_keywords(t) ==
    IF t.site.keywords # <<>>
    THEN LET keyword_result == check_keywords(t.html_content, t.site.keywords)
             scanned == [t EXCEPT !.layers = Append(@, "keywords")]
         IN IF ~keyword_result.found
            THEN [scanned EXCEPT !.pc = "returned",
                     !.result = SiteCheckResult(FALSE, t.status_code,
                                    t.response_time_ms, "Keyword missing",
                                    "keyword_missing")]
            ELSE [scanned EXCEPT !.pc = "returned",
                     !.result = SiteCheckResult(TRUE, t.status_code,
                                    t.response_time_ms, None, None)]
    ELSE [t EXCEPT !.pc = "returned",
             !.result = SiteCheckResult(TRUE, t.status_code,
                            t.response_time_ms, None, None)]

\* mutant: the keywords are looked at before the certificate
check_site_keywords_first(t) ==
    LET k == check_site_keywords(t)
    IN IF t.site.check_http_code /\ t.status_code # t.site.expected_code
       THEN [t EXCEPT !.pc = "returned",
                !.result = SiteCheckResult(FALSE, t.status_code,
                               t.response_time_ms, "Wrong HTTP code", "wrong_code")]
       ELSE IF ~k.result.success
       THEN k
       ELSE IF t.site.check_ssl /\ t.site.url.scheme = "https://"
       THEN [t EXCEPT !.pc = "ssl"]
       ELSE k

\* check_site from the response to the await of check_ssl or to its return
check_site_response(t) ==
    IF t.site.check_http_code /\ t.status_code # t.site.expected_code
    THEN [t EXCEPT !.pc = "returned",
             !.result = SiteCheckResult(FALSE, t.status_code,
                            t.response_time_ms, "Wrong HTTP code", "wrong_code")]
    ELSE IF t.site.check_ssl /\ t.site.url.scheme = "https://"
    THEN [t EXCEPT !.pc = "ssl"]
    ELSE check_site_keywords(t)

\* check_site from the return of check_ssl to its own return
check_site_ssl(t, ssl_result) ==
    LET inspected == [t EXCEPT !.layers = Append(@, "ssl")]
    IN IF ~ssl_result.valid
       THEN [inspected EXCEPT !.pc = "returned",
                !.result = SiteCheckResult(FALSE, t.status_code,
                               t.response_time_ms, ssl_result.error,
                               ssl_result.error_type)]
       ELSE check_site_keywords(inspected)

CheckerInit ==
    /\ sites_state = <<>>
    /\ incidents = <<>>
    /\ user_mutes = {}
    /\ now = 0
    /\ conns = NoConns
    /\ \E site \in SiteConfigs :
          tasks = [check |-> [pc |-> "request", site |-> site,
                              status_code |-> None, html_content |-> None,
                              response_time_ms |-> None, exc |-> None,
                              cert |-> None, layers |-> <<>>,
                              result |-> None]]

\* session.get and response.text() give the response
RequestReturns ==
    \E status_code \in StatusCodes, html_content \in Bodies, ms \in ResponseTimes :
        /\ tasks["check"].pc = "request"
        /\ tasks' = [tasks EXCEPT !["check"] =
              check_site_response([@ EXCEPT !.status_code = status_code,
                                            !.html_content = html_content,
                                            !.response_time_ms = ms,
                                            !.layers = <<"request", "status">>])]
        /\ UNCHANGED <<sites_state, incidents, user_mutes, now, conns>>

\* session.get or response.text() raises
RequestRaises ==
    \E exc \in RequestExceptions, ms \in ResponseTimes :
        /\ tasks["check"].pc = "request"
        /\ tasks' = [tasks EXCEPT !["check"] =
              check_site_except([@ EXCEPT !.response_time_ms = ms,
                                          !.exc = [raised |-> exc],
                                          !.layers = <<"request">>], exc)]
        /\ UNCHANGED <<sites_state, incidents, user_mutes, now, conns>>

\* check_ssl returns; urlparse gives the hostname in small letters
CheckSslReturns ==
    \E cert \in CertOutcomes :
        /\ tasks["check"].pc = "ssl"
        /\ tasks' = [tasks EXCEPT !["check"] =
              check_site_ssl([@ EXCEPT !.cert = cert],
                  check_ssl(lower(tasks["check"].site.url.hostname), cert))]
        /\ UNCHANGED <<sites_state, incidents, user_mutes, now, conns>>

CheckerNext ==
    \/ RequestReturns
    \/ RequestRaises
    \/ CheckSslReturns

SpecChecker == CheckerInit /\ [][CheckerNext]_vars

\* ------------------------------------------------------------------------
\* Specification SpecTxn: update_on_success and update_on_failure statement
\* by statement.  sites_state, incidents and user_mutes are the committed
\* rows, which any other connection reads; the rows the open connection has
\* written and not committed are in tasks["txn"].  Both methods are
\* synchronous, so nothing else runs between their statements.
\* ------------------------------------------------------------------------
MaxTxnCalls == 3

\* what ends a with-block of _get_connection early, by the clause that
\* takes it: "except Exception" or "finally" alone
TxnExceptions == {"Exception", "KeyboardInterrupt"}

TxnOps == {"update_on_success", "update_on_failure"}

\* the statements of the second with-block, for the row read before it
Statements(op, state) ==
    IF op = "update_on_failure"
    THEN IF state.status = "UP" /\ state.fail_streak + 1 >= 1
         THEN <<"INSERT incidents", "UPDATE sites_state">>
         ELSE <<"UPDATE sites_state">>
    ELSE IF state.status = "DOWN"
         THEN IF Truthy(state.current_incident_id)
              THEN <<"UPDATE incidents", "DELETE user_mutes", "UPDATE sites_state">>
              ELSE <<"DELETE user_mutes", "UPDATE sites_state">>
         ELSE <<"UPDATE sites_state">>

\* the rows as the connection sees them after the first n statements
Executed(db, op, site_id, state, t, n) ==
    LET stmts == Statements(op, state)
        whole == IF op = "update_on_failure"
                 THEN update_on_failure_tx(db, site_id, state, RetryCount,
                          FailureOf(site_id).error_type,
                          FailureOf(site_id).error, t).db
                 ELSE update_on_success_tx(db, site_id, state, t).db
        closed == IF Truthy(state.current_incident_id)
                  THEN close_incident(db, state.current_incident_id, t).db
                  ELSE db
    IN IF n = 0 THEN db
       ELSE IF n = Len(stmts) THEN whole
       ELSE IF stmts[n] = "INSERT incidents"
       THEN create_incident(db, site_id, FailureOf(site_id).error_type,
                            FailureOf(site_id).error, t).db
       ELSE IF stmts[n] = "UPDATE incidents"
       THEN closed
       ELSE delete_mutes(closed, site_id)

\* conn.commit()
commit(db, work) == work

\* mutant: the statements are written through as they are executed
rollback_keeps(db, work) == work

\* conn.rollback(), or conn.close() with the transaction open
rollback(db, work) == db

TxnInit ==
    /\ sites_state = <<>>
    /\ incidents = <<>>
    /\ user_mutes = {}
    /\ now = 0
    /\ conns = NoConns
    /\ tasks = [txn |-> [pc |-> "idle", op |-> "", site_id |-> "", at |-> 0,
                         before |-> [sites_state |-> <<>>, incidents |-> <<>>,
                                     user_mutes |-> {}],
                         state |-> DefaultState(0), n |-> 0, calls |-> 0,
                         last |-> "none"]]

\* the call, up to the start of its second with-block: get_state has
\* committed the row it may have created
TxnBegin ==
    \E op \in TxnOps, s \in Sites :
        LET g == get_state(DB, s, now)
        IN /\ tasks["txn"].pc = "idle"
           /\ tasks["txn"].calls < MaxTxnCalls
           /\ op = "update_on_failure" => FailureWithinBounds(s)
           /\ Apply(g.db)
           /\ tasks' = [tasks EXCEPT !["txn"] =
                 [pc |-> "open", op |-> op, site_id |-> s, at |-> now,
                  before |-> DB, state |-> g.state, n |-> 0,
                  calls |-> @.calls + 1, last |-> "none"]]
           /\ UNCHANGED <<now, conns>>

\* conn.execute of the next statement
TxnExecute ==
    LET x == tasks["txn"]
    IN /\ x.pc = "open"
       /\ x.n < Len(Statements(x.op, x.state))
       /\ tasks' = [tasks EXCEPT !["txn"].n = @ + 1]
       /\ UNCHANGED <<sites_state, incidents, user_mutes, now, conns>>

\* the with-block ends: conn.commit()
TxnCommit ==
    LET x == tasks["txn"]
    IN /\ x.pc = "open"
       /\ x.n = Len(Statements(x.op, x.state))
       /\ Apply(commit(DB, Executed(DB, x.op, x.site_id, x.state, x.at, x.n)))
       /\ tasks' = [tasks EXCEPT !["txn"].pc = "idle", !["txn"].last = "commit"]
       /\ UNCHANGED <<now, conns>>

\* something is raised inside the with-block: conn.rollback() and
\* conn.close(), or conn.close() alone
TxnRaises ==
    \E exc \in TxnExceptions :
        LET x == tasks["txn"]
        IN /\ x.pc = "open"
           /\ Apply(rollback(DB, Executed(DB, x.op, x.site_id, x.state, x.at, x.n)))
           /\ tasks' = [tasks EXCEPT !["txn"].pc = "idle", !["txn"].last = exc]
           /\ UNCHANGED <<now, conns>>

\* between two calls a user mutes a site
TxnMute ==
    \E u \in Users, s \in Sites :
        /\ tasks["txn"].pc = "idle"
        /\ s \in DOMAIN sites_state
        /\ ~is_muted(DB, u, s)
        /\ Apply(mute_for_user(DB, u, s, now).db)
        /\ UNCHANGED <<now, tasks, conns>>

TxnTick ==
    /\ tasks["txn"].pc = "idle"
    /\ Tick

TxnNext ==
    \/ TxnBegin
    \/ TxnExecute
    \/ TxnCommit
    \/ TxnRaises
    \/ TxnMute
    \/ TxnTick

SpecTxn == TxnInit /\ [][TxnNext]_vars

\* ------------------------------------------------------------------------
\* Specification SpecStreak: the store calls of Spec that read or write
\* sites_state, one after the other, with the calls of update_on_failure
\* counted per site since its last update_on_success.
\* ------------------------------------------------------------------------
StreakInit ==
    /\ sites_state = <<>>
    /\ incidents = <<>>
    /\ user_mutes = {}
    /\ now = 0
    /\ conns = NoConns
    /\ tasks = [streak |-> [s \in Sites |-> 0]]

StreakFailure ==
    \E s \in Sites, n \in RetryCounts :
        /\ FailureWithinBounds(s)
        /\ Apply(update_on_failure(DB, s, n, FailureOf(s).error_type,
                                   FailureOf(s).error, now).db)
        /\ tasks' = [tasks EXCEPT !["streak"][s] = @ + 1]
        /\ UNCHANGED <<now, conns>>

StreakSuccess ==
    \E s \in Sites :
        /\ Apply(update_on_success(DB, s, now).db)
        /\ tasks' = [tasks EXCEPT !["streak"][s] = 0]
        /\ UNCHANGED <<now, conns>>

StreakGetState ==
    \E s \in Sites :
        /\ Apply(get_state(DB, s, now).db)
        /\ UNCHANGED <<now, tasks, conns>>

StreakReminder ==
    \E s \in Sites :
        /\ ReminderWithinBounds(s)
        /\ Apply(mark_reminder_sent(DB, s, now).db)
        /\ UNCHANGED <<now, tasks, conns>>

StreakNext ==
    \/ StreakFailure
    \/ StreakSuccess
    \/ StreakGetState
    \/ StreakReminder
    \/ Tick

SpecStreak == StreakInit /\ [][StreakNext]_vars

\* ------------------------------------------------------------------------
\* Specification SpecLoop: start(), stop() and the tasks that run _run_loop.
\* tasks["sched"] holds self._running, self._task (0 for None) and, for
\* every task start() has created, where its coroutine is suspended and
\* whether a cancellation is waiting for it.
\* ------------------------------------------------------------------------
MaxSchedCalls == 5

\* asyncio.create_task(self._run_loop()): the coroutine has not run yet
NewLoopTask == [pc |-> "created", cancel |-> FALSE]

\* start()
start(x) ==
    IF x.running
    THEN [x EXCEPT !.calls = @ + 1, !.ret = x.task]
    ELSE [x EXCEPT !.running = TRUE,
                   !.task = Len(x.loops) + 1,
                   !.loops = Append(@, NewLoopTask),
                   !.calls = @ + 1,
                   !.ret = Len(x.loops) + 1]

\* mutant: stop() clears the flag and leaves the task alone
stop_flag_only(x) ==
    [x EXCEPT !.running = FALSE, !.calls = @ + 1, !.ret = 0]

\* stop(); Task.cancel() does nothing to a task that is done
stop(x) ==
    [x EXCEPT !.running = FALSE,
              !.loops = IF x.task # 0 /\ x.loops[x.task].pc # "done"
                        THEN [@ EXCEPT ![x.task].cancel = TRUE]
                        ELSE @,
              !.calls = @ + 1,
              !.ret = 0]

\* the task is resumed: CancelledError is thrown into it where it is
\* suspended (no clause of the loop takes it), or the loop goes on to its
\* next await
run_loop_step(x, id) ==
    LET l == x.loops[id]
    IN IF l.cancel
       THEN [x EXCEPT !.loops[id] = [pc |-> "done", cancel |-> FALSE]]
       ELSE IF l.pc \in {"created", "sleep"}
       THEN [x EXCEPT !.loops[id].pc = IF x.running THEN "sweep" ELSE "done"]
       ELSE IF l.pc = "sweep"
       THEN [x EXCEPT !.loops[id].pc = "remind"]
       ELSE [x EXCEPT !.loops[id].pc = "sleep"]

LoopInit ==
    /\ sites_state = <<>>
    /\ incidents = <<>>
    /\ user_mutes = {}
    /\ now = 0
    /\ conns = NoConns
    /\ tasks = [sched |-> [running |-> FALSE, task |-> 0, loops |-> <<>>,
                           calls |-> 0, ret |-> 0]]

SchedStart ==
    /\ tasks["sched"].calls < MaxSchedCalls
    /\ tasks' = [tasks EXCEPT !["sched"] = start(@)]
    /\ UNCHANGED <<sites_state, incidents, user_mutes, now, conns>>

SchedStop ==
    /\ tasks["sched"].calls < MaxSchedCalls
    /\ tasks' = [tasks EXCEPT !["sched"] = stop(@)]
    /\ UNCHANGED <<sites_state, incidents, user_mutes, now, conns>>

\* the event loop resumes a task of _run_loop
LoopResumes ==
    \E id \in DOMAIN tasks["sched"].loops :
        /\ tasks["sched"].loops[id].pc # "done"
        /\ tasks' = [tasks EXCEPT !["sched"] = run_loop_step(@, id)]
        /\ UNCHANGED <<sites_state, incidents, user_mutes, now, conns>>

LoopNext ==
    \/ SchedStart
    \/ SchedStop
    \/ LoopResumes

SpecLoop == LoopInit /\ [][LoopNext]_vars

\* ------------------------------------------------------------------------
\* Specification SpecStale: the reminder pass and the other callers of
\* SpecReminders, from a store in which both configured sites are DOWN and
\* one of them has had its first reminder.
\* ------------------------------------------------------------------------
\* the second configured site went DOWN at 0 and was reminded of at 900,
\* the first one went DOWN at 1800: both are due at 2700
StoreWithReminder ==
    LET a == ConfigSites[1]
        b == ConfigSites[2]
        down == update_on_failure(EmptyStore, b, RetryCount,
                    FailureOf(b).error_type, FailureOf(b).error, 0).db
        marked == mark_reminder_sent(down, b, 900).db
    IN update_on_failure(marked, a, RetryCount,
           FailureOf(a).error_type, FailureOf(a).error, 1800).db

StaleInit ==
    /\ sites_state = StoreWithReminder.sites_state
    /\ incidents = StoreWithReminder.incidents
    /\ user_mutes = StoreWithReminder.user_mutes
    /\ now = 1800
    /\ conns = NoConns
    /\ tasks = [pass |->
                  [pc |-> "sweep", snapshot |-> <<>>, handled |-> <<>>,
                   due |-> <<>>, entry |-> <<>>, call |-> NoReminder,
                   left |-> {}, sent |-> <<>>, sweeps |-> 1, passes |-> 0,
                   others |-> 0]]

SpecStale == StaleInit /\ [][RemindersNext]_vars

\* ------------------------------------------------------------------------
\* Specification SpecOutage: the reminder pass of a running loop while
\* sites go DOWN, none of them recovers and no user changes a mute.  The
\* loop task is scheduled fairly: a sweep ends, send_message and
\* send_reminder return, the sleep is over.
\* ------------------------------------------------------------------------
OutageNext ==
    \/ SweepEnds
    \/ ReminderDelivers
    \/ SendReminderReturns
    \/ SendReminderRaises
    \/ PassLoopWakes
    \/ OtherCheckFails
    \/ PassTick

SpecOutage ==
    /\ ReminderInit
    /\ [][OutageNext]_vars
    /\ WF_vars(SweepEnds)
    /\ WF_vars(ReminderDelivers)
    /\ WF_vars(SendReminderReturns)
    /\ WF_vars(PassLoopWakes)

\* ------------------------------------------------------------------------
\* Properties of the store under Spec
\* ------------------------------------------------------------------------
OpenIncidents(db, site_id) ==
    {i \in DOMAIN db.incidents :
        db.incidents[i].site_id = site_id /\ db.incidents[i].ended_at = NULL}

HasRow(s) == s \in DOMAIN sites_state
IsUp(s) == HasRow(s) /\ sites_state[s].status = "UP"
IsDown(s) == HasRow(s) /\ sites_state[s].status = "DOWN"

\* C1: for every site, status is DOWN iff current_incident_id is set iff
\* exactly one incident row of the site is open, and that row is the one
\* current_incident_id names.
C1_IncidentInvariant ==
    \A s \in Sites :
        LET open == OpenIncidents(DB, s)
        IN IF HasRow(s)
           THEN /\ (sites_state[s].status = "DOWN")
                      <=> (sites_state[s].current_incident_id # NULL)
                /\ (sites_state[s].current_incident_id # NULL)
                      <=> (Cardinality(open) = 1)
                /\ sites_state[s].current_incident_id # NULL
                      => open = {sites_state[s].current_incident_id}
           ELSE open = {}

\* a site that went down, recovered and is down again, on its second incident
C1_Witness ==
    \E s \in Sites :
        /\ IsDown(s)
        /\ \E i \in DOMAIN incidents :
              incidents[i].site_id = s /\ incidents[i].ended_at # NULL
        /\ \E t \in Sites \ {s} : IsUp(t)

\* C4: update_on_failure on a site that is UP (or not yet registered) at
\* time now returns True and leaves it DOWN with fail_streak 1,
\* reminder_count 0, the first reminder 15 minutes ahead, last_status_change
\* now and current_incident_id naming the one new open incident, which
\* carries the given error; the retry_count argument makes no difference.
C4_FirstFailureOpens ==
    \A s \in Sites, n \in RetryCounts, f \in Failures :
        (~HasRow(s) \/ (IsUp(s) /\ sites_state[s].fail_streak = 0)) =>
            LET r == update_on_failure(DB, s, n, f.error_type, f.error, now)
                st == r.db.sites_state[s]
                id == Len(incidents) + 1
            IN /\ r.status_changed = TRUE
               /\ st.status = "DOWN"
               /\ st.fail_streak = 1
               /\ st.reminder_count = 0
               /\ st.next_reminder_at = now + 15 * 60
               /\ st.last_status_change = now
               /\ st.current_incident_id = id
               /\ r.db.incidents = Append(incidents,
                     [site_id |-> s, started_at |-> now, ended_at |-> NULL,
                      duration_seconds |-> NULL, error_type |-> f.error_type,
                      error_message |-> f.error])
               /\ OpenIncidents(r.db, s) = {id}

\* a site just taken DOWN by its first failure, after an earlier recovery
C4_Witness ==
    \E s \in Sites :
        /\ IsDown(s)
        /\ sites_state[s].fail_streak = 1
        /\ sites_state[s].reminder_count = 0
        /\ sites_state[s].last_status_change = now
        /\ sites_state[s].next_reminder_at = now + 900
        /\ sites_state[s].current_incident_id = 2
        /\ incidents[2].started_at = now

\* C5: update_on_success on a DOWN site whose open incident started at T,
\* called at T + d, returns (True, d), closes that incident with ended_at
\* T + d and duration_seconds d, deletes every mute of the site and leaves
\* it UP with fail_streak 0, reminder_count 0 and no reminder or incident.
C5_RecoveryCloses ==
    \A s \in Sites :
        IsDown(s) =>
            LET id == sites_state[s].current_incident_id
                d == now - incidents[id].started_at
                r == update_on_success(DB, s, now)
                st == r.db.sites_state[s]
            IN /\ r.status_changed = TRUE
               /\ r.value = d
               /\ r.db.incidents = [incidents EXCEPT ![id].ended_at = now,
                                                     ![id].duration_seconds = d]
               /\ r.db.user_mutes = {m \in user_mutes : m.site_id # s}
               /\ st.status = "UP"
               /\ st.fail_streak = 0
               /\ st.reminder_count = 0
               /\ st.next_reminder_at = NULL
               /\ st.current_incident_id = NULL

\* a recovered site whose incident lasted 900 seconds, and a DOWN site that
\* is muted and 900 seconds into its incident
C5_Witness ==
    /\ \E i \in DOMAIN incidents :
          /\ incidents[i].duration_seconds = 900
          /\ incidents[i].ended_at = incidents[i].started_at + 900
          /\ IsUp(incidents[i].site_id)
    /\ \E s \in Sites :
          /\ IsDown(s)
          /\ now = incidents[sites_state[s].current_incident_id].started_at + 900
          /\ get_muted_users(DB, s) # {}

\* C6: update_on_failure on a site that is already DOWN returns False and
\* changes nothing but fail_streak, which grows by one.
C6_FailureWhileDown ==
    \A s \in Sites, n \in RetryCounts, f \in Failures :
        IsDown(s) =>
            LET r == update_on_failure(DB, s, n, f.error_type, f.error, now)
            IN /\ r.status_changed = FALSE
               /\ r.db = [DB EXCEPT !.sites_state[s].fail_streak = @ + 1]

\* a DOWN site that has failed again, with reminders already counted
C6_Witness ==
    \E s \in Sites :
        /\ IsDown(s)
        /\ sites_state[s].fail_streak >= 2
        /\ sites_state[s].reminder_count >= 1
        /\ sites_state[s].last_status_change < now

\* C7: update_on_success on a site that is already UP returns (False, None)
\* and, called once or twice, leaves the site's row, the incidents and the
\* mutes as they were.
C7_SuccessWhileUp ==
    \A s \in Sites :
        IsUp(s) =>
            LET r1 == update_on_success(DB, s, now)
                r2 == update_on_success(r1.db, s, now)
            IN /\ r1.status_changed = FALSE /\ r1.value = NULL
               /\ r2.status_changed = FALSE /\ r2.value = NULL
               /\ sites_state[s].fail_streak = 0
               /\ r1.db = DB
               /\ r2.db = DB

\* an UP site with a closed incident, a mute, and an older status change
C7_Witness ==
    \E s \in Sites :
        /\ IsUp(s)
        /\ sites_state[s].last_status_change < now
        /\ get_muted_users(DB, s) # {}
        /\ \E i \in DOMAIN incidents : incidents[i].site_id = s

\* The claimed sequence of reminder intervals, in minutes
ClaimedIntervals == <<15, 30, 60, 120, 240, 240, 240>>

\* The intervals mark_reminder_sent gives, call after call, in minutes
ReturnedIntervals == <<30, 60, 120, 240, 240, 240, 240>>

\* C8 as claimed: for a site DOWN with reminder_count k - 1 (k - 1 calls
\* made since it went down), the k-th call of mark_reminder_sent returns the
\* k-th interval of 15, 30, 60, 120, 240, 240, 240.
C8_AsClaimed ==
    \A s \in Sites :
        (IsDown(s) /\ sites_state[s].reminder_count + 1 \in DOMAIN ClaimedIntervals) =>
            mark_reminder_sent(DB, s, now).value
                = ClaimedIntervals[sites_state[s].reminder_count + 1]

\* C8 amended: the k-th call of mark_reminder_sent since the site went DOWN
\* returns min(15 * 2^k, 240), that is 30, 60, 120, 240, 240, ... minutes,
\* never more than 240, sets reminder_count to k and schedules the next
\* reminder that many minutes ahead; the interval of 15 minutes is the one
\* update_on_failure schedules when the incident opens.
C8_ReminderSequence ==
    \A s \in Sites :
        (IsDown(s) /\ sites_state[s].reminder_count + 1 \in DOMAIN ReturnedIntervals) =>
            LET k == sites_state[s].reminder_count + 1
                r == mark_reminder_sent(DB, s, now)
            IN /\ r.value = ReturnedIntervals[k]
               /\ r.value <= 240
               /\ r.db.sites_state[s].reminder_count = k
               /\ r.db.sites_state[s].next_reminder_at = now + 60 * ReturnedIntervals[k]
               /\ (k = 1 => sites_state[s].next_reminder_at
                               = sites_state[s].last_status_change + 60 * 15)

\* a DOWN site after its fourth reminder, the first one scheduled 240 ahead
C8_Witness ==
    \E s \in Sites :
        /\ IsDown(s)
        /\ sites_state[s].reminder_count = 4
        /\ sites_state[s].next_reminder_at = now + 60 * 240

\* min(15 * 2^n, 240) written out: 15, 30, 60, 120 and 240 from n = 4 on
Interval(n) == IF n >= 4 THEN 240 ELSE <<15, 30, 60, 120>>[n + 1]

\* C9: whenever a step leaves a DOWN site with a new next_reminder_at, that
\* value is the current time plus Interval(n) minutes, n being the site's
\* reminder_count after the step (0 when the incident opens); the interval
\* never decreases with n and is 240 from n = 4 on.
C9_ReminderSchedule ==
    /\ [][\A s \in DOMAIN sites_state' :
            (/\ sites_state'[s].status = "DOWN"
             /\ sites_state'[s].next_reminder_at # NULL
             /\ (s \in DOMAIN sites_state =>
                    \/ sites_state'[s].next_reminder_at # sites_state[s].next_reminder_at
                    \/ sites_state'[s].reminder_count # sites_state[s].reminder_count))
            => sites_state'[s].next_reminder_at
                  = now + 60 * Interval(sites_state'[s].reminder_count)]_vars
    /\ [](\A n \in 0..(MaxReminders + 1) :
            /\ get_next_reminder_interval(n) = Interval(n)
            /\ get_next_reminder_interval(n) <= get_next_reminder_interval(n + 1))

\* a DOWN site after its fifth reminder: 15 * 2^5 is cut down to 240
C9_Witness ==
    \E s \in Sites :
        /\ IsDown(s)
        /\ sites_state[s].reminder_count = 5
        /\ sites_state[s].next_reminder_at = now + 60 * 240
        /\ now > sites_state[s].last_status_change

\* ------------------------------------------------------------------------
\* Properties of the coroutines under SpecAsync
\* ------------------------------------------------------------------------
Status(rows, s) == IF s \in DOMAIN rows THEN rows[s].status ELSE "UP"

\* C2: however the checks of the coroutines interleave at their awaits, a
\* site never has more than one open incident, every step that takes a site
\* from UP to DOWN adds exactly one incident row, a row of that site, and no
\* other step adds a row.
C2_NoDoubleOpen ==
    /\ [](\A s \in Sites : Cardinality(OpenIncidents(DB, s)) <= 1)
    /\ [][\A s \in Sites :
            LET opened == Status(sites_state, s) = "UP" /\ Status(sites_state', s) = "DOWN"
                added == {i \in DOMAIN incidents' : i > Len(incidents)
                                                    /\ incidents'[i].site_id = s}
            IN /\ opened => Cardinality(added) = 1
               /\ ~opened => added = {}]_vars

\* two of the coroutines have recorded a failure of the same site in the same
\* second, and a third one still awaits its check of that site
C2_Witness ==
    \E s \in Sites :
        /\ IsDown(s)
        /\ sites_state[s].fail_streak >= 2
        /\ sites_state[s].last_status_change = now
        /\ Cardinality({k \in TaskNames : tasks[k].i \in DOMAIN ConfigSites
                           /\ ConfigSites[tasks[k].i] = s
                           /\ tasks[k].pc \in {"check", "notify"}}) >= 2

\* the task k has made the store call of its check in this step
Checked(k) == tasks[k].pc = "check" /\ tasks'[k] # tasks[k]

\* C15: the step of a check awaits notify_site_down exactly when its
\* update_on_failure took the site from UP to DOWN and notify_site_up, with
\* the downtime of the incident just closed, exactly when its
\* update_on_success took it from DOWN to UP; a failure of a DOWN site and a
\* success of an UP site notify nobody.  Every incident row is opened, and
\* every incident row is closed, by exactly one such step, whatever the
\* interleaving, so no incident is notified twice.
C15_NotifyOnTransition ==
    /\ [](\A s \in Sites, success \in BOOLEAN :
            LET r == record_result(DB, s, success, now)
                c == notifier_call(s, success, r)
            IN /\ c.call = "notify_site_down" <=> (~success /\ ~IsDown(s))
               /\ c.call = "notify_site_up" <=> (success /\ IsDown(s))
               /\ c.call = "notify_site_up" =>
                     LET id == sites_state[s].current_incident_id
                     IN /\ c.downtime_seconds = now - incidents[id].started_at
                        /\ c.downtime_seconds = r.db.incidents[id].duration_seconds
               /\ c.site_id = s)
    /\ [][/\ \A k \in TaskNames :
                /\ Checked(k) =>
                      LET s == ConfigSites[tasks[k].i]
                      IN tasks'[k].pc = "notify" <=>
                            Status(sites_state', s) # Status(sites_state, s)
                /\ (tasks'[k].pc = "notify" /\ tasks[k].pc # "notify") => Checked(k)
          /\ \A s \in Sites :
                Status(sites_state', s) # Status(sites_state, s) =>
                    /\ Cardinality({k \in TaskNames :
                           /\ Checked(k)
                           /\ ConfigSites[tasks[k].i] = s
                           /\ tasks'[k].pc = "notify"}) = 1
                    /\ Cardinality(OpenIncidents(DB, s)) +
                          Cardinality(OpenIncidents(
                             [sites_state |-> sites_state',
                              incidents |-> incidents',
                              user_mutes |-> user_mutes'], s)) = 1
          /\ incidents' # incidents =>
                \E s \in Sites : Status(sites_state', s) # Status(sites_state, s)
       ]_vars

\* a coroutine awaits the notifier for a site that has just recovered from
\* an incident of 900 seconds, while another site is DOWN and has failed again
C15_Witness ==
    \E k \in TaskNames, i \in DOMAIN incidents :
        /\ tasks[k].pc = "notify"
        /\ tasks[k].i \in DOMAIN ConfigSites
        /\ incidents[i].site_id = ConfigSites[tasks[k].i]
        /\ IsUp(incidents[i].site_id)
        /\ incidents[i].ended_at = now
        /\ incidents[i].duration_seconds = 900
        /\ \E s \in Sites : IsDown(s) /\ sites_state[s].fail_streak >= 2

\* C10 as claimed: a site whose status is UP has no next_reminder_at and a
\* reminder_count of 0.
C10_NoReminderWhileUp ==
    \A s \in Sites :
        IsUp(s) => /\ sites_state[s].next_reminder_at = NULL
                   /\ sites_state[s].reminder_count = 0

\* ------------------------------------------------------------------------
\* Properties of concurrent callers under SpecConns
\* ------------------------------------------------------------------------
\* C3 as claimed: callers working on the same site through connections of
\* their own never both see the site UP and both open an incident, so no
\* site ever has two open incident rows.
C3_SerializedPerSite ==
    \A s \in Sites :
        \A i, j \in OpenIncidents(DB, s) : i = j

\* C17: for the same store and the same result of check_with_retry,
\* check_single_site and the loop body of run_immediate_check make the same
\* store call with the same arguments and the same notifier call as
\* _check_site, and leave the same store; it is the transition the sweeps
\* of the coroutines make.
C17_SameTransitionLogic ==
    \A s \in Sites, result \in CheckResults :
        LET scheduled == check_site_step(DB, s, result, now)
            single == check_single_site(DB, s, result, now)
            immediate == run_immediate_check(DB, s, result, now)
        IN /\ single = scheduled
           /\ immediate = scheduled
           /\ scheduled.store.site_id = s
           /\ scheduled.store.op = IF result.success THEN "update_on_success"
                                   ELSE "update_on_failure"
           /\ (result.success \/ (/\ result.error_type = FailureOf(s).error_type
                                  /\ result.error = FailureOf(s).error)) =>
                 LET r == record_result(DB, s, result.success, now)
                 IN /\ scheduled.db = r.db
                    /\ scheduled.notify.call =
                          notifier_call(s, result.success, r).call

\* a site DOWN for 900 seconds, whose successful check makes each path close
\* the incident and call notify_site_up with 900, next to a site that is UP,
\* whose failing check makes each path open an incident and call
\* notify_site_down
C17_Witness ==
    \E s1, s2 \in Sites, bad \in CheckResults :
        LET ok == CheckResult(TRUE, "", "")
        IN /\ IsDown(s1)
           /\ check_single_site(DB, s1, ok, now).notify = NotifyUp(s1, ok, 900)
           /\ run_immediate_check(DB, s1, ok, now).db.sites_state[s1].status = "UP"
           /\ IsUp(s2)
           /\ ~bad.success
           /\ check_single_site(DB, s2, bad, now).notify = NotifyDown(s2, bad)
           /\ Len(run_immediate_check(DB, s2, bad, now).db.incidents)
                 = Len(incidents) + 1

\* C18: get_sites_needing_reminder returns one pair for every site that is
\* DOWN with a next_reminder_at that is set and not later than now, the pair
\* holding the reminder_count of the site, and nothing else: no site that is
\* UP or without a row, no DOWN site whose reminder is still to come.  It
\* only reads.
C18_SitesNeedingReminder ==
    LET due == get_sites_needing_reminder(DB, now)
    IN /\ \A s \in Sites :
             (\E p \in due : p[1] = s) <=>
                 /\ IsDown(s)
                 /\ sites_state[s].next_reminder_at # NULL
                 /\ sites_state[s].next_reminder_at <= now
       /\ \A p \in due :
             /\ p[1] \in Sites
             /\ p[2] = sites_state[p[1]].reminder_count
             /\ ~IsUp(p[1])
       /\ Cardinality(due) = Cardinality({p[1] : p \in due})

\* one site is DOWN and due at this very second, and is the only one
\* returned; another site is DOWN, reminded before, with its next reminder
\* still to come
C18_Witness ==
    \E s1, s2 \in Sites :
        /\ IsDown(s1)
        /\ sites_state[s1].next_reminder_at = now
        /\ <<s1, sites_state[s1].reminder_count>> \in get_sites_needing_reminder(DB, now)
        /\ IsDown(s2)
        /\ sites_state[s2].next_reminder_at > now
        /\ sites_state[s2].reminder_count >= 1
        /\ get_sites_needing_reminder(DB, now) = {<<s1, sites_state[s1].reminder_count>>}

\* ------------------------------------------------------------------------
\* Mutes
\* ------------------------------------------------------------------------
\* C11: a user who has muted a DOWN site is no longer muted once the site
\* has recovered, and stays unmuted when the site goes DOWN again: neither
\* get_muted_users nor is_muted reports the user in the new incident.
C11_MuteScoping ==
    \A s \in Sites, u \in Users, f \in Failures, d \in {0} \cup Deltas :
        (IsDown(s) /\ is_muted(DB, u, s)) =>
            LET up == update_on_success(DB, s, now)
                down == update_on_failure(up.db, s, RetryCount,
                            f.error_type, f.error, now + d)
            IN /\ up.status_changed
               /\ u \notin get_muted_users(up.db, s)
               /\ down.status_changed
               /\ down.db.sites_state[s].status = "DOWN"
               /\ down.db.sites_state[s].last_status_change = now + d
               /\ u \notin get_muted_users(down.db, s)
               /\ ~is_muted(down.db, u, s)

\* a DOWN site muted by a user during its open incident, some time ago
C11_Witness ==
    \E s \in Sites, m \in user_mutes :
        /\ IsDown(s)
        /\ m.site_id = s
        /\ m.incident_start = sites_state[s].last_status_change
        /\ m.muted_at = incidents[sites_state[s].current_incident_id].started_at
        /\ now > m.muted_at
        /\ m.user_id \in get_muted_users(DB, s)

\* the mute of user u on site s that a failure right after it leaves behind
MuteThenFailure(s, u, f) ==
    LET muted == mute_for_user(DB, u, s, now)
    IN update_on_failure(muted.db, s, RetryCount, f.error_type, f.error, now)

\* C12 as claimed: for every sequence of store operations, every mute of a
\* DOWN site was made during the open incident, and a mute made while the
\* site was UP is not in the muted set of the incident that follows.
C12_AsClaimed ==
    /\ \A s \in Sites, m \in user_mutes :
          (IsDown(s) /\ m.site_id = s) =>
              m.incident_start = sites_state[s].last_status_change
    /\ \A s \in Sites, u \in Users, f \in Failures :
          (~IsDown(s) /\ ~is_muted(DB, u, s)) =>
              u \notin get_muted_users(MuteThenFailure(s, u, f).db, s)

\* C12: in the running process, where the only caller of mute_for_user is
\* callback_mute_site right after it has read the site as DOWN, every mute
\* of a DOWN site carries the start of the open incident and a site that is
\* not DOWN has no mutes.  The store does not enforce this: mute_for_user on
\* a site that is UP makes a record that is still in get_muted_users when
\* the site goes DOWN next.
C12_MuteOfCurrentIncident ==
    /\ \A s \in Sites, m \in user_mutes :
          m.site_id = s =>
              /\ IsDown(s)
              /\ m.incident_start = sites_state[s].last_status_change
              /\ m.incident_start =
                    incidents[sites_state[s].current_incident_id].started_at
    /\ \A s \in Sites, u \in Users, f \in Failures :
          ~IsDown(s) =>
              LET r == MuteThenFailure(s, u, f)
              IN /\ r.status_changed
                 /\ u \in get_muted_users(r.db, s)

\* a site in its second incident, muted by a user during that incident
C12_Witness ==
    \E s \in Sites, m \in user_mutes, i \in DOMAIN incidents :
        /\ IsDown(s)
        /\ incidents[i].site_id = s
        /\ incidents[i].ended_at # NULL
        /\ m.site_id = s
        /\ sites_state[s].last_status_change = 900
        /\ m.incident_start = 900

\* the mute records of user u on site s
MutesOf(db, u, s) == {m \in db.user_mutes : m.user_id = u /\ m.site_id = s}

\* C13: mute_for_user returns True and adds the record when there is none;
\* while the record exists it returns False and changes no mute record;
\* unmute_for_user returns True exactly when the record existed and removes
\* that record alone; a mute that created the record, followed by an unmute,
\* gives back the mute set from before.  Neither touches the incidents, and
\* unmute leaves the site rows as they are.
C13_MuteIdempotent ==
    \A s \in Sites, u \in Users, d \in {0} \cup Deltas :
        LET first == mute_for_user(DB, u, s, now)
            second == mute_for_user(first.db, u, s, now + d)
            undone == unmute_for_user(first.db, u, s)
            unmuted == unmute_for_user(DB, u, s)
            record == [user_id |-> u, site_id |-> s, muted_at |-> now,
                       incident_start |->
                           get_state(DB, s, now).state.last_status_change]
        IN /\ first.status_changed = ~is_muted(DB, u, s)
           /\ first.db.user_mutes =
                 IF is_muted(DB, u, s) THEN user_mutes
                 ELSE user_mutes \cup {record}
           /\ first.db.incidents = incidents
           /\ second.status_changed = FALSE
           /\ second.db = first.db
           /\ unmuted.status_changed = is_muted(DB, u, s)
           /\ unmuted.db = [DB EXCEPT !.user_mutes = @ \ MutesOf(DB, u, s)]
           /\ Cardinality(MutesOf(DB, u, s)) <= 1
           /\ undone.status_changed = TRUE
           /\ undone.db.user_mutes = user_mutes \ MutesOf(DB, u, s)
           /\ ~is_muted(DB, u, s) => undone.db.user_mutes = user_mutes

\* a user with mutes on two sites, one made earlier and one made now
C13_Witness ==
    \E u \in Users, s1, s2 \in Sites :
        /\ s1 # s2
        /\ is_muted(DB, u, s1)
        /\ is_muted(DB, u, s2)
        /\ \E m \in MutesOf(DB, u, s1) : m.muted_at < now
        /\ \E m \in MutesOf(DB, u, s2) : m.muted_at = now

\* ------------------------------------------------------------------------
\* Properties of check_with_retry under SpecRetry
\* ------------------------------------------------------------------------
Attempts(trace) == {i \in DOMAIN trace : trace[i].ev = "attempt"}
Sleeps(trace) == {i \in DOMAIN trace : trace[i].ev = "sleep"}

RetryTraceShape ==
    LET t == tasks["retry"]
        n == Len(t.trace)
    IN /\ \A i \in DOMAIN t.trace :
             t.trace[i].ev = IF i % 2 = 1 THEN "attempt" ELSE "sleep"
       /\ \A i \in Sleeps(t.trace) :
             t.trace[i].seconds = t.retry_interval_minutes * 60
       /\ Cardinality(Attempts(t.trace)) <= t.retry_count
       /\ Cardinality(Sleeps(t.trace)) <= t.retry_count - 1
       /\ \A i \in Attempts(t.trace) :
             t.trace[i].result.success =>
                 i = n /\ t.pc = "done" /\ t.returned = t.trace[i].result
       /\ t.pc = "sleep" => n > 0 /\ t.trace[n].ev = "sleep"
       /\ t.pc = "attempt" => n = 0 \/ t.trace[n].ev = "sleep"
       /\ t.pc = "done" =>
             /\ n > 0
             /\ t.trace[n].ev = "attempt"
             /\ t.returned = t.trace[n].result
             /\ \/ t.returned.success
                \/ Cardinality(Attempts(t.trace)) = t.retry_count

\* C14: with retry_count N >= 1 the call awaits attempt (sleep attempt)*:
\* every sleep lasts retry_interval_minutes and lies between two attempts, a
\* successful attempt ends the call at once with its result, N failing
\* attempts end it with the result of the N-th, there are never more than N
\* attempts and N - 1 sleeps, and the call returns in the end.
C14_RetryTrace ==
    /\ [](tasks["retry"].retry_count >= 1 => RetryTraceShape)
    /\ <>(tasks["retry"].pc = "done")

\* three failing attempts of different kinds with two sleeps between them,
\* the third result returned
C14_Witness ==
    LET t == tasks["retry"]
    IN /\ t.pc = "done"
       /\ t.retry_count = 3
       /\ Len(t.trace) = 5
       /\ ~t.returned.success
       /\ t.returned = t.trace[5].result
       /\ t.returned # t.trace[1].result
       /\ t.trace[2] = Sleep(300)
       /\ now = 600

\* ------------------------------------------------------------------------
\* Properties of check_all_sites under SpecSweep
\* ------------------------------------------------------------------------
\* C16: an exception in the step of one site (from check_with_retry, from
\* the store or from the notifier) does not end the sweep: the sites are
\* stepped in the order of the configuration without a gap, the sweep ends
\* only after the step of the last site, and it never ends by raising.
C16_SweepIsolation ==
    LET t == tasks["sweep"]
    IN /\ t.pc # "raised"
       /\ Len(t.steps) = t.i
       /\ \A j \in DOMAIN t.steps : t.steps[j] = ConfigSites[j]
       /\ t.pc = "done" => t.steps = ConfigSites
       /\ t.errors <= Len(t.steps)

\* a sweep that has ended after an exception in the step of every site, the
\* first one raised by the notifier after the site went DOWN
C16_Witness ==
    LET t == tasks["sweep"]
    IN /\ t.pc = "done"
       /\ t.errors = Len(ConfigSites)
       /\ t.steps = ConfigSites
       /\ IsDown(ConfigSites[1])
       /\ sites_state[ConfigSites[1]].fail_streak = 1
       /\ ~HasRow(ConfigSites[2])

\* ------------------------------------------------------------------------
\* Properties of the reminder pass under SpecReminders
\* ------------------------------------------------------------------------
SitesOf(q) == [j \in DOMAIN q |-> q[j][1]]

\* the step makes a new send_reminder call
NewReminder ==
    /\ tasks'["pass"].pc = "send"
    /\ tasks'["pass"].call # tasks["pass"].call

NoRepeat(q) == \A i, j \in DOMAIN q : q[i] = q[j] => i = j

\* C20: the reminder pass does not look at the mutes to decide anything: for
\* a due entry of a configured site it advances the reminder state and calls
\* send_reminder with the site's whole notify_users list and the muted set
\* of the store, also when every recipient is muted, so that each such entry
\* ends as sent or raised.  send_reminder calls send_message once for each
\* member of set(user_ids) + admin_ids that is not muted, and never for a
\* muted one; when it has gone through all recipients, the messages sent
\* are exactly the unmuted recipients.
C20_MutingByNotifier ==
    /\ [](LET t == tasks["pass"]
          IN /\ t.pc = "send" =>
                  /\ NoRepeat(t.sent)
                  /\ Range(t.sent)
                        = (all_recipients(t.call) \ t.left) \ t.call.muted_users
                  /\ t.left \subseteq all_recipients(t.call)
             /\ t.pc = "sleep" =>
                  \A j \in DOMAIN t.snapshot :
                      t.snapshot[j][1] \in Sites =>
                          \E k \in DOMAIN t.handled :
                              /\ t.handled[k][1] = t.snapshot[j][1]
                              /\ t.handled[k][2] \in {"sent", "raised"})
    /\ [][NewReminder =>
             LET c == tasks'["pass"].call
                 s == c.site_id
             IN /\ c.user_ids = notify_users(s)
                /\ c.muted_users = get_muted_users(DB, s)
                /\ tasks'["pass"].left
                      = Range(notify_users(s)) \cup Range(admin_ids)
                /\ tasks'["pass"].sent = <<>>
                /\ sites_state'[s].reminder_count
                      = sites_state[s].reminder_count + 1
                /\ sites_state'[s].next_reminder_at > now
         ]_vars

\* send_reminder has gone through the recipients of a site all of whom are
\* muted: nothing was sent, and the reminder state of the site has advanced
C20_Witness ==
    LET t == tasks["pass"]
    IN /\ t.pc = "send"
       /\ t.left = {}
       /\ t.call.site_id \in Sites
       /\ all_recipients(t.call) # {}
       /\ all_recipients(t.call) \subseteq t.call.muted_users
       /\ t.sent = <<>>
       /\ sites_state[t.call.site_id].reminder_count = t.call.reminder_number

\* send_reminder has gone through the recipients of a site one of whom is
\* muted: the other one got the message
PartlyMutedSent ==
    LET t == tasks["pass"]
    IN /\ t.pc = "send"
       /\ t.left = {}
       /\ t.call.muted_users # {}
       /\ t.sent # <<>>

\* ------------------------------------------------------------------------
\* Properties of the notifications under SpecNotify
\* ------------------------------------------------------------------------
\* C21: whatever send_message comes to for one recipient, the notification
\* goes on to the other recipients, so that when it returns send_message
\* has been called once for each member of notify_users + admin_ids.  The
\* store write of the step is there when the notification starts, it is the
\* write of update_on_success or update_on_failure for the site, and no
\* step of the notification, failed or not, changes the store.
C21_DeliveryFailureIsolated ==
    /\ [](LET t == tasks["notify"]
          IN /\ DB = t.committed
             /\ t.pc = "deliver" =>
                  /\ NoRepeat(SitesOf(t.attempts))
                  /\ Range(SitesOf(t.attempts))
                        = get_all_recipients(t.call.site_id) \ t.left
                  /\ t.call.call \in {"notify_site_up", "notify_site_down"})
    /\ [][/\ tasks["notify"].pc = "deliver" =>
                /\ sites_state' = sites_state
                /\ incidents' = incidents
                /\ user_mutes' = user_mutes
          /\ tasks["notify"].pc = "check" /\ tasks'["notify"].pc = "deliver" =>
                LET s == tasks'["notify"].call.site_id
                    up == tasks'["notify"].call.call = "notify_site_up"
                IN /\ [sites_state |-> sites_state', incidents |-> incidents',
                       user_mutes |-> user_mutes']
                         = record_result(DB, s, up, now).db
                   /\ sites_state'[s].status = IF up THEN "UP" ELSE "DOWN"
                   /\ Status(sites_state, s) # sites_state'[s].status
                   /\ tasks'["notify"].left = get_all_recipients(s)
                   /\ tasks'["notify"].attempts = <<>>
         ]_vars

\* notify_site_down has gone through both recipients of the first site,
\* send_message failed for each of them, and the site is DOWN in the store
C21_Witness ==
    LET t == tasks["notify"]
    IN /\ t.pc = "deliver"
       /\ t.left = {}
       /\ t.call.call = "notify_site_down"
       /\ Len(t.attempts) = 2
       /\ \A j \in DOMAIN t.attempts : ~send_message(t.attempts[j][2])
       /\ t.attempts[1][2] = "error"
       /\ IsDown(t.call.site_id)
       /\ Len(incidents) = 1

\* ------------------------------------------------------------------------
\* Further properties of the store under Spec
\* ------------------------------------------------------------------------
\* C22: get_state of a site without a row inserts and returns the default
\* row (UP, fail_streak 0, reminder_count 0, no reminder, no incident),
\* leaves the other rows, the incidents and the mutes alone; get_state of a
\* site with a row returns that row and writes nothing; a second get_state,
\* at the same or a later time, returns the same row and writes nothing.
C22_GetState ==
    \A s \in Sites :
        LET r == get_state(DB, s, now)
        IN /\ IF HasRow(s)
              THEN /\ r.db = DB
                   /\ r.state = sites_state[s]
              ELSE /\ r.state.status = "UP"
                   /\ r.state.fail_streak = 0
                   /\ r.state.reminder_count = 0
                   /\ r.state.next_reminder_at = NULL
                   /\ r.state.current_incident_id = NULL
                   /\ r.state.last_status_change = now
                   /\ DOMAIN r.db.sites_state = DOMAIN sites_state \cup {s}
                   /\ r.db.sites_state[s] = r.state
                   /\ \A x \in DOMAIN sites_state :
                         r.db.sites_state[x] = sites_state[x]
           /\ r.db.incidents = incidents
           /\ r.db.user_mutes = user_mutes
           /\ \A t \in {now, now + 900} :
                 get_state(r.db, s, t) = [db |-> r.db, state |-> r.state]

\* one site is DOWN after a reminder, the other one has no row yet
C22_Witness ==
    \E s, x \in Sites :
        /\ IsDown(s)
        /\ sites_state[s].reminder_count >= 1
        /\ sites_state[s].fail_streak >= 2
        /\ ~HasRow(x)

\* ------------------------------------------------------------------------
\* Properties of the statistics under SpecStats
\* ------------------------------------------------------------------------
StatsWindows == {7, 30}

\* the length of the part of an incident that lies in [lo, hi]
Overlap(inc, lo, hi) ==
    LET from == Max(inc.started_at, lo)
        to == Min(IF inc.ended_at = NULL THEN hi ELSE inc.ended_at, hi)
    IN IF to > from THEN to - from ELSE 0

\* the sum of the overlaps of the first n incidents of the table that
\* belong to the site
RECURSIVE OverlapDowntime(_, _, _, _, _)
OverlapDowntime(db, site_id, n, lo, hi) ==
    IF n = 0
    THEN 0
    ELSE (IF db.incidents[n].site_id = site_id
          THEN Overlap(db.incidents[n], lo, hi) ELSE 0)
            + OverlapDowntime(db, site_id, n - 1, lo, hi)

\* the downtime and the uptime of a window in the result of get_site_stats
StatsDowntime(stats, days) ==
    IF days = 7 THEN stats.downtime_7d ELSE stats.downtime_30d
StatsUptime(stats, days) ==
    IF days = 7 THEN stats.uptime_7d ELSE stats.uptime_30d

\* C23 as claimed: for both windows the downtime of get_site_stats is the
\* sum, over all incidents of the site, of the length of their part in
\* [now - W, now], an open incident ending now; this counts the incidents
\* that started before the window and reach into it.
C23_AsClaimed ==
    \A s \in Sites :
        LET stats == get_site_stats(DB, s, now)
        IN \A days \in StatsWindows :
              StatsDowntime(stats, days)
                 = OverlapDowntime(DB, s, Len(incidents), now - Days(days), now)

\* the ids of the incidents of a site
IncidentsOf(db, site_id) ==
    {i \in DOMAIN db.incidents : db.incidents[i].site_id = site_id}

\* the sum of the stored durations of the incidents in ids among the
\* first n of the table
RECURSIVE StoredDurations(_, _, _)
StoredDurations(db, ids, n) ==
    IF n = 0
    THEN 0
    ELSE (IF n \in ids THEN db.incidents[n].duration_seconds ELSE 0)
            + StoredDurations(db, ids, n - 1)

\* every incident of the site is closed and lies in the window
ClosedInsideWindow(s, days) ==
    \A i \in IncidentsOf(DB, s) :
        /\ incidents[i].ended_at # NULL
        /\ incidents[i].started_at >= now - Days(days)
        /\ incidents[i].ended_at <= now

\* the only incident of s is closed, took an hour and lies in the 7 days
OneHourIncident(s) ==
    /\ Cardinality(IncidentsOf(DB, s)) = 1
    /\ ClosedInsideWindow(s, 7)
    /\ \A i \in IncidentsOf(DB, s) : incidents[i].duration_seconds = 3600

MissingAt(t) ==
    {j \in DOMAIN t.keywords : ~IsSubstring(t.keywords[j], t.html_content)}

\* C25: check_keywords returns found = TRUE with all keywords as
\* found_keywords exactly when every keyword is in the body; otherwise it
\* returns the first keyword of the list that is not in the body as
\* missing_keyword and the keywords before it as found_keywords, and it
\* has not looked at a keyword behind that one.  For a body with A and
\* without B, [A, B] gives missing B and found [A]; for a body with
\* neither, missing A and found [].
C25_CheckKeywords ==
    LET t == tasks["kw"]
        r == t.result
        A == <<"A">>
        B == <<"B">>
    IN t.pc = "returned" =>
          /\ r.found <=> MissingAt(t) = {}
          /\ r.found =>
                /\ r.found_keywords = t.keywords
                /\ r.missing_keyword = None
          /\ ~r.found =>
                LET first == CHOOSE j \in MissingAt(t) :
                                 \A k \in MissingAt(t) : j <= k
                IN /\ r.missing_keyword = t.keywords[first]
                   /\ r.found_keywords = SubSeq(t.keywords, 1, first - 1)
                   /\ t.i = first
          /\ t.keywords = <<A, B>> /\ IsSubstring(A, t.html_content)
                /\ ~IsSubstring(B, t.html_content) =>
                r = KeywordCheckResult(FALSE, B, <<A>>)
          /\ t.keywords = <<A, B>> /\ ~IsSubstring(A, t.html_content)
                /\ ~IsSubstring(B, t.html_content) =>
                r = KeywordCheckResult(FALSE, A, <<>>)

\* check_keywords has returned for the keywords [A, B] and a body with A
\* and without B
C25_Witness ==
    LET t == tasks["kw"]
    IN /\ t.pc = "returned"
       /\ t.keywords = <<<<"A">>, <<"B">>>>
       /\ t.html_content = <<"A", "A">>
       /\ ~t.result.found

\* ------------------------------------------------------------------------
\* Properties of _hostname_matches_cert under SpecHostname
\* ------------------------------------------------------------------------
\* h is one label, a text without a dot, followed by a dot and d
OneLabelThen(h, d) ==
    \E k \in 0..(Len(h) - 1) :
        /\ \A j \in 1..k : h[j] # "."
        /\ h[k + 1] = "."
        /\ SubSeq(h, k + 2, Len(h)) = d

\* the match of one name as the claim puts it, letter case set aside
ClaimedMatch(name, hostname) ==
    LET n == lower(name)
        forms == {lower(hostname), lower(to_punycode(hostname))}
    IN IF IsWildcard(n)
       THEN \E h \in forms : OneLabelThen(h, SubSeq(n, 3, Len(n)))
       ELSE n \in forms

PunycodeYa == <<"x", "n", "-", "-", "4", "1", "a">>

\* C26: _hostname_matches_cert returns True exactly when one of the SAN
\* names or the CN matches the hostname, where letter case does not count,
\* a name "*.d" matches the hostnames that are one label followed by ".d",
\* and any other name matches when it is the hostname or its Punycode
\* form.  So "*.b" matches "a.b" and "A.B" but neither "b" nor "a.a.b",
\* and the hostname of the letter U+044F and ".b" matches the name
\* "xn--41a.b".
C26_HostnameMatching ==
    LET t == tasks["match"]
        names == all_names(t.cn, t.san_list)
    IN /\ t.pc = "returned" =>
             (t.result <=> \E j \in DOMAIN names :
                               ClaimedMatch(names[j], t.hostname))
       /\ t.pc = "returned" /\ ~t.result => t.i = Len(names) + 1
       /\ t.pc = "returned" /\ t.result =>
             /\ ClaimedMatch(names[t.i], t.hostname)
             /\ \A j \in 1..(t.i - 1) : ~ClaimedMatch(names[j], t.hostname)
       /\ t.pc = "returned" /\ t.hostname = <<"a", ".", "b">> =>
             /\ <<"*", ".", "b">> \in Range(names) => t.result
             /\ <<"*", ".", "B">> \in Range(names) => t.result
             /\ <<"A", ".", "b">> \in Range(names) => t.result
       /\ t.pc = "returned" /\ t.san_list = <<<<"*", ".", "b">>>>
             /\ t.cn = None =>
             /\ t.hostname = <<"A", ".", "b">> => t.result
             /\ t.hostname = <<"b">> => ~t.result
             /\ t.hostname = <<"a", ".", "a", ".", "b">> => ~t.result
       /\ t.pc = "returned" /\ t.hostname = <<"U+044F", ".", "b">>
             /\ t.san_list = <<PunycodeYa \o <<".", "b">>>> => t.result
       /\ to_punycode(<<"U+042F", ".", "b">>) = PunycodeYa \o <<".", "b">>
       /\ to_punycode(<<"A", ".", "b">>) = <<"A", ".", "b">>

\* the hostname of the letter U+044F and ".b" has been matched with a
\* certificate whose only name is the SAN "xn--41a.b"
C26_Witness ==
    LET t == tasks["match"]
    IN /\ t.pc = "returned"
       /\ t.result
       /\ t.hostname = <<"U+044F", ".", "b">>
       /\ t.cn = None
       /\ t.san_list = <<PunycodeYa \o <<".", "b">>>>

\* ------------------------------------------------------------------------
\* Properties of check_site under SpecChecker
\* ------------------------------------------------------------------------
\* the status test fails
WrongCode(t) ==
    t.site.check_http_code /\ t.status_code # t.site.expected_code

\* the certificate could not be read, has expired, or has no name for the
\* hostname
CertFails(t) ==
    \/ "raised" \in DOMAIN t.cert
    \/ t.cert.days_until_expiry < 0
    \/ \A j \in DOMAIN all_names(t.cert.cn, t.cert.san_list) :
          ~ClaimedMatch(all_names(t.cert.cn, t.cert.san_list)[j],
                        lower(t.site.url.hostname))

\* some keyword of the site is not in the body
KeywordFails(t) ==
    \E j \in DOMAIN t.site.keywords :
        ~IsSubstring(t.site.keywords[j], t.html_content)

\* C27: check_site goes through the request, the status test, check_ssl
\* and check_keywords in this order and returns at the first one that
\* fails.  A request that raises gives no_response or timeout and nothing
\* else is looked at; a status other than expected_code gives wrong_code
\* when check_http_code is set, and then neither the certificate nor the
\* keywords are looked at; check_ssl is called exactly when the status test
\* passed, check_ssl is set and the URL starts with "https://", and its
\* failure gives ssl_expired or ssl_mismatch without a look at the
\* keywords; check_keywords is called exactly when all that passed and the
\* site has keywords, and a missing one gives keyword_missing; else the
\* result is a success with the status code and the response time.
C27_LayerOrder ==
    LET t == tasks["check"]
        r == t.result
        tls == t.site.check_ssl /\ t.site.url.scheme = "https://"
    IN t.pc = "returned" =>
          /\ \E n \in 1..4 :
                t.layers = SubSeq(<<"request", "status", "ssl", "keywords">>, 1, n)
                \/ /\ ~tls
                   /\ t.layers = <<"request", "status", "keywords">>
          /\ IF t.exc # None
             THEN /\ t.layers = <<"request">>
                  /\ ~r.success
                  /\ r.error_type \in {"no_response", "timeout"}
             ELSE IF WrongCode(t)
             THEN /\ t.layers = <<"request", "status">>
                  /\ ~r.success
                  /\ r.error_type = "wrong_code"
             ELSE /\ "ssl" \in Range(t.layers) <=> tls
                  /\ IF tls /\ CertFails(t)
                     THEN /\ ~r.success
                          /\ r.error_type \in {"ssl_expired", "ssl_mismatch"}
                          /\ "keywords" \notin Range(t.layers)
                     ELSE /\ "keywords" \in Range(t.layers)
                                <=> t.site.keywords # <<>>
                          /\ IF KeywordFails(t)
                             THEN /\ ~r.success
                                  /\ r.error_type = "keyword_missing"
                             ELSE /\ r.success
                                  /\ r.status_code = t.status_code
                                  /\ r.status_code \in StatusCodes
                                  /\ r.response_time_ms \in ResponseTimes

\* a response with a wrong status, an expired certificate and a missing
\* keyword at once, for a site without the status test: ssl_expired
C27_Witness ==
    LET t == tasks["check"]
    IN /\ t.pc = "returned"
       /\ ~t.site.check_http_code
       /\ t.layers = <<"request", "status", "ssl">>
       /\ t.status_code = 500
       /\ t.cert \in [days_until_expiry : {-1}, cn : {None},
                      san_list : {<<>>}]
       /\ KeywordFails(t)
       /\ t.result.error_type = "ssl_expired"

ErrorKinds ==
    {"timeout", "no_response", "wrong_code", "ssl_expired", "ssl_mismatch",
     "keyword_missing"}

\* C28: whatever the request, the certificate and the keywords come to,
\* check_site does not end with an exception; what it returns is a
\* CheckResult, with one of the six error kinds when success is False and
\* with none when it is True.
C28_AlwaysCheckResult ==
    LET t == tasks["check"]
        r == t.result
    IN /\ t.pc \in {"request", "ssl", "returned"}
       /\ t.pc = "returned" =>
             /\ r.kind = "CheckResult"
             /\ r.success \in BOOLEAN
             /\ ~r.success => r.error_type \in ErrorKinds
             /\ r.success => r.error_type = None /\ r.error = None

\* check_site has returned after an exception that none of the aiohttp
\* clauses takes
C28_Witness ==
    LET t == tasks["check"]
    IN /\ t.pc = "returned"
       /\ t.layers = <<"request">>
       /\ t.result.error = "Unexpected error"
       /\ t.result.error_type = "no_response"

\* check_site has returned after check_ssl met an exception of its own
CertRaisedReturned ==
    LET t == tasks["check"]
    IN /\ t.pc = "returned"
       /\ t.cert \in [raised : {"socket.gaierror"}]
       /\ t.result.error_type = "ssl_mismatch"

\* ------------------------------------------------------------------------
\* Properties of the transactions under SpecTxn
\* ------------------------------------------------------------------------
\* the committed rows once the get_state of the open or last call is through
AfterGetState(x) == get_state(x.before, x.site_id, x.at).db

\* the committed rows the call leaves when it runs to its end
AfterCall(x) ==
    IF x.op = "update_on_failure"
    THEN update_on_failure(x.before, x.site_id, RetryCount,
             FailureOf(x.site_id).error_type, FailureOf(x.site_id).error,
             x.at).db
    ELSE update_on_success(x.before, x.site_id, x.at).db

\* a step that ends the with-block of the call
TxnEnds == tasks["txn"].pc = "open" /\ tasks'["txn"].pc = "idle"

\* the committed rows after the step
DBNext ==
    [sites_state |-> sites_state', incidents |-> incidents',
     user_mutes |-> user_mutes']

RecoveryAbandoned ==
    LET x == tasks["txn"]
    IN /\ x.pc = "idle"
       /\ x.last = "KeyboardInterrupt"
       /\ x.op = "update_on_success"
       /\ x.n = 2
       /\ Statements(x.op, x.state)[x.n] = "DELETE user_mutes"
       /\ IsDown(x.site_id)
       /\ get_muted_users(DB, x.site_id) # {}

\* the first call for a site has been abandoned: the row of get_state is left
FirstCallAbandoned ==
    LET x == tasks["txn"]
    IN /\ x.pc = "idle"
       /\ x.last \in TxnExceptions
       /\ x.site_id \notin DOMAIN x.before.sites_state
       /\ IsUp(x.site_id)

\* ------------------------------------------------------------------------
\* Properties of fail_streak under SpecStreak
\* ------------------------------------------------------------------------
\* C30: after any sequence of update_on_success and update_on_failure
\* calls, the fail_streak of a site is the number of its update_on_failure
\* calls since its last update_on_success, or since its row was created;
\* so it is 0 for a site that is UP and at least 1 for a site that is DOWN.
C30_FailStreakCounts ==
    \A s \in Sites :
        IF HasRow(s)
        THEN /\ sites_state[s].fail_streak = tasks["streak"][s]
             /\ IsUp(s) => sites_state[s].fail_streak = 0
             /\ IsDown(s) => sites_state[s].fail_streak >= 1
        ELSE tasks["streak"][s] = 0

\* a site that recovered once is DOWN again after two failures in a row,
\* with a reminder sent in between
C30_Witness ==
    \E s \in Sites :
        /\ IsDown(s)
        /\ tasks["streak"][s] = 2
        /\ sites_state[s].fail_streak = 2
        /\ sites_state[s].reminder_count >= 1
        /\ \E i \in DOMAIN incidents :
              incidents[i].site_id = s /\ incidents[i].ended_at # NULL

\* ------------------------------------------------------------------------
\* Properties of the incident rows under SpecStreak
\* ------------------------------------------------------------------------
\* the sites that a step takes from UP, or from no row, to DOWN
WentDown ==
    {s \in Sites : ~IsDown(s) /\ s \in DOMAIN sites_state'
                      /\ sites_state'[s].status = "DOWN"}

\* the sites that a step takes from DOWN to UP
WentUp ==
    {s \in Sites : IsDown(s) /\ sites_state'[s].status = "UP"}

\* the incident rows a step closes
ClosedByStep ==
    {i \in DOMAIN incidents :
        incidents[i].ended_at = NULL /\ incidents'[i].ended_at # NULL}

\* C31: a store call adds an incident row exactly when it takes a site from
\* UP to DOWN, one row for the transition, open, of that site, started at
\* the time of the call and with an id above every earlier one; it closes
\* an incident exactly when it takes the incident's site from DOWN to UP,
\* with ended_at the time of the call and duration_seconds = ended_at -
\* started_at >= 0; a closed row is never written again, no row is ever
\* removed, and site_id and started_at of a row never change.
C31_IncidentLifecycle ==
    [][/\ Len(incidents') = Len(incidents) + Cardinality(WentDown)
       /\ Cardinality(WentDown) <= 1
       /\ \A s \in WentDown :
             LET id == Len(incidents')
             IN /\ \A i \in DOMAIN incidents : i < id
                /\ incidents'[id].site_id = s
                /\ incidents'[id].started_at = now
                /\ incidents'[id].ended_at = NULL
                /\ incidents'[id].duration_seconds = NULL
                /\ sites_state'[s].current_incident_id = id
       /\ ClosedByStep = {i \in DOMAIN incidents :
                             /\ incidents[i].ended_at = NULL
                             /\ incidents[i].site_id \in WentUp}
       /\ \A i \in ClosedByStep :
             /\ incidents'[i].ended_at = now
             /\ incidents'[i].duration_seconds = now - incidents[i].started_at
             /\ incidents'[i].duration_seconds >= 0
       /\ \A i \in DOMAIN incidents :
             /\ incidents'[i].site_id = incidents[i].site_id
             /\ incidents'[i].started_at = incidents[i].started_at
             /\ i \notin ClosedByStep => incidents'[i] = incidents[i]]_vars

\* an incident closed at a later time than it was opened, with a second
\* incident of the same site open after it
C31_Witness ==
    \E i, j \in DOMAIN incidents :
        /\ i < j
        /\ incidents[i].site_id = incidents[j].site_id
        /\ incidents[i].ended_at # NULL
        /\ incidents[i].duration_seconds = 900
        /\ incidents[j].ended_at = NULL
        /\ IsDown(incidents[j].site_id)

\* ------------------------------------------------------------------------
\* Properties of the scheduler loop under SpecLoop
\* ------------------------------------------------------------------------
\* the tasks of _run_loop that can still run a statement of the loop
ActiveLoops(x) ==
    {id \in DOMAIN x.loops : x.loops[id].pc # "done" /\ ~x.loops[id].cancel}

\* the tasks that a step takes to the start of a sweep or of a reminder pass
Begins(x, y) ==
    {id \in DOMAIN x.loops :
        /\ y.loops[id].pc # x.loops[id].pc
        /\ y.loops[id].pc \in {"sweep", "remind"}}

\* C32: a task of _run_loop goes sweep, reminder pass, sleep and round
\* again.  Whatever start() and stop() calls are made, at most one task can
\* still run the loop, and it is self._task; start() while running creates
\* no task and returns self._task; a task that stop() has cancelled runs
\* nothing more of the loop, and while self._running is False no task
\* begins a sweep or a reminder pass.
C32_OneLoop ==
    /\ [](LET x == tasks["sched"]
          IN /\ Cardinality(ActiveLoops(x)) <= 1
             /\ ActiveLoops(x) \subseteq {x.task}
             /\ ~x.running => ActiveLoops(x) = {})
    /\ [][LET x == tasks["sched"]
              y == tasks'["sched"]
          IN /\ y.calls # x.calls /\ y.running /\ x.running =>
                   /\ y.loops = x.loops
                   /\ y.task = x.task
                   /\ y.ret = x.task
             /\ \A id \in DOMAIN x.loops :
                   /\ x.loops[id].cancel /\ y.loops[id].pc # x.loops[id].pc
                         => y.loops[id].pc = "done"
                   /\ y.loops[id].pc # x.loops[id].pc =>
                         <<x.loops[id].pc, y.loops[id].pc>> \in
                             {<<"created", "sweep">>, <<"sweep", "remind">>,
                              <<"remind", "sleep">>, <<"sleep", "sweep">>,
                              <<"created", "done">>, <<"sweep", "done">>,
                              <<"remind", "done">>, <<"sleep", "done">>}
             /\ Begins(x, y) # {} =>
                   /\ x.running
                   /\ Begins(x, y) = {x.task}]_vars

\* after start(), stop() and start() the first task is done and the second
\* one has gone round the loop to its second sweep; a further start() has
\* returned it
C32_Witness ==
    LET x == tasks["sched"]
    IN /\ x.running
       /\ Len(x.loops) = 2
       /\ x.loops[1].pc = "done"
       /\ x.loops[2].pc = "sweep"
       /\ x.task = 2
       /\ x.calls = 4
       /\ x.ret = 2

\* the second task has been created while the first, cancelled in its
\* sleep, has not been resumed yet
CancelPending ==
    LET x == tasks["sched"]
    IN /\ Len(x.loops) = 2
       /\ x.loops[1].pc = "sleep"
       /\ x.loops[1].cancel
       /\ x.loops[2].pc = "sweep"

\* ------------------------------------------------------------------------
\* Properties of the reminder pass among other callers under SpecReminders
\* ------------------------------------------------------------------------
\* C33 as claimed: whenever the reminder pass advances the reminder state
\* of a site and calls send_reminder for it, the site is DOWN in the store
\* at that moment, whatever checks have recorded a success since the pass
\* took its list of due sites.
C33_AsClaimed ==
    [][NewReminder =>
          LET s == tasks'["pass"].call.site_id
          IN /\ sites_state[s].status = "DOWN"
             /\ sites_state'[s].status = "DOWN"]_vars

\* C34 as claimed: the reminder_number of every send_reminder call for a
\* site that is DOWN is the reminder_count the store holds right after the
\* mark_reminder_sent of that call, so that the numbers of one incident are
\* 1, 2, 3, ... also when the site recovered and went DOWN again after the
\* pass took its list.
C34_AsClaimed ==
    [][NewReminder =>
          LET c == tasks'["pass"].call
          IN sites_state'[c.site_id].status = "DOWN" =>
                c.reminder_number = sites_state'[c.site_id].reminder_count]_vars

\* ------------------------------------------------------------------------
\* Further properties of the notifications under SpecNotify
\* ------------------------------------------------------------------------
\* C35 as claimed: when notify_site_down for a site was left before its
\* first send_message (the task was cancelled or the notifier raised) and
\* the site is still DOWN, the next check of the site that fails calls
\* notify_site_down for it, so that the transition does not stay without
\* its notification.
C35_AsClaimed ==
    [][LET t == tasks["notify"]
           s == t.call.site_id
       IN /\ t.pc = "check"
          /\ t.call.call = "notify_site_down"
          /\ t.attempts = <<>>
          /\ IsDown(s)
          /\ tasks'["notify"].checks = t.checks + 1
          /\ sites_state'[s].fail_streak = sites_state[s].fail_streak + 1
          => /\ tasks'["notify"].pc = "deliver"
             /\ tasks'["notify"].call.call = "notify_site_down"
             /\ tasks'["notify"].call.site_id = s]_vars

\* ------------------------------------------------------------------------
\* Properties of the reminders of a lasting outage under SpecOutage
\* ------------------------------------------------------------------------
\* the site is DOWN and its next_reminder_at has passed
Due(s) ==
    /\ IsDown(s)
    /\ sites_state[s].next_reminder_at # NULL
    /\ sites_state[s].next_reminder_at <= now

\* the loop has a reminder pass to come
PassToCome ==
    tasks["pass"].pc = "sweep" \/ tasks["pass"].sweeps < MaxSweeps

\* the store raised in the current pass before the reminder of the site
\* was marked
RaisedFor(s) ==
    /\ Due(s)
    /\ \E j \in DOMAIN tasks["pass"].handled :
          tasks["pass"].handled[j] = <<s, "raised">>

\* C36: while a configured site stays DOWN, each time its next_reminder_at
\* has passed and the loop has a reminder pass to come, a pass of the
\* fairly scheduled loop marks the reminder, so that next_reminder_at is
\* ahead again, and in the same step calls send_reminder for the site
\* (unless the store raises in every pass that is left); and the pass
\* never does so for a site whose next_reminder_at is still ahead.
C36_KeepsReminding ==
    /\ \A s \in Sites :
          (Due(s) /\ PassToCome)
              ~> (~Due(s) \/ (~PassToCome /\ RaisedFor(s)))
    /\ [][/\ NewReminder =>
                LET s == tasks'["pass"].call.site_id
                IN /\ Due(s)
                   /\ sites_state'[s].next_reminder_at > now
          /\ \A s \in Sites :
                s \in DOMAIN sites_state /\
                sites_state'[s].reminder_count > sites_state[s].reminder_count
                   => NewReminder /\ tasks'["pass"].call.site_id = s]_vars

\* the second reminder of a site that has been DOWN since 0: the first was
\* sent at 900, this one is sent at 2700
C36_Witness ==
    LET t == tasks["pass"]
    IN /\ t.pc = "send"
       /\ t.call.site_id \in Sites
       /\ t.call.reminder_number = 2
       /\ now = 2700
       /\ sites_state[t.call.site_id].reminder_count = 2
       /\ sites_state[t.call.site_id].last_status_change = 0

\* ------------------------------------------------------------------------
\* Properties of the value check_with_retry returns, under SpecRetry
\* ------------------------------------------------------------------------
\* C37: when check_with_retry has returned, for every configured
\* retry_count, what it returned is a CheckResult, whose success the caller
\* reads.
C37_AsClaimed ==
    tasks["retry"].pc = "done" =>
        /\ tasks["retry"].returned.kind = "CheckResult"
        /\ tasks["retry"].returned.success \in BOOLEAN

\* ------------------------------------------------------------------------
\* Properties of the site a store call names, under SpecTxn
\* ------------------------------------------------------------------------
\* what the store holds for one site: its sites_state row, its incident
\* rows with their ids, its mute records
StoredFor(db, y) ==
    [row |-> IF y \in DOMAIN db.sites_state
             THEN <<db.sites_state[y]>> ELSE <<>>,
     incidents |-> {<<i, db.incidents[i]>> :
                       i \in {j \in DOMAIN db.incidents :
                                 db.incidents[j].site_id = y}},
     mutes |-> {m \in db.user_mutes : m.site_id = y}]

\* the stores the calls on site x can leave from the current one
CallsOn(x) ==
    {update_on_success(DB, x, now).db, mark_reminder_sent(DB, x, now).db}
        \cup {update_on_failure(DB, x, n, FailureOf(x).error_type,
                                FailureOf(x).error, now).db :
                 n \in RetryCounts}
        \cup {mute_for_user(DB, u, x, now).db : u \in Users}
        \cup {unmute_for_user(DB, u, x).db : u \in Users}

\* C38: update_on_success, update_on_failure, mark_reminder_sent,
\* mute_for_user and unmute_for_user on a site leave the sites_state row,
\* the incident rows and the mute records of every other site as they
\* were.
C38_SiteScoped ==
    \A x \in Sites : \A y \in Sites \ {x} :
        \A db \in CallsOn(x) : StoredFor(db, y) = StoredFor(DB, y)

\* a recovered after b was muted: b is still DOWN with its open incident
\* and its mute, the recovery of a took the mute of a alone
C38_Witness ==
    \E x \in Sites : \E y \in Sites \ {x} :
        /\ HasRow(x) /\ HasRow(y)
        /\ sites_state[x].status = "UP"
        /\ \E i \in DOMAIN incidents :
              incidents[i].site_id = x /\ incidents[i].ended_at # NULL
        /\ sites_state[y].status = "DOWN"
        /\ sites_state[y].current_incident_id \in DOMAIN incidents
        /\ incidents[sites_state[y].current_incident_id].ended_at = NULL
        /\ \E m \in user_mutes : m.site_id = y
        /\ ~ \E m \in user_mutes : m.site_id = x

\* ------------------------------------------------------------------------
\* Specification SpecReset: store calls made one after the other, with runs
\* of the reset script (reset_sites.py) between them.
\* ------------------------------------------------------------------------
\* main of reset_sites.py: nothing when no row is DOWN; otherwise one UPDATE
\* of the DOWN rows and DELETE FROM user_mutes, committed together.  The
\* script has no statement on the incidents table.
reset_sites(db) ==
    IF \A s \in DOMAIN db.sites_state : db.sites_state[s].status # "DOWN"
    THEN db
    ELSE [db EXCEPT
            !.sites_state =
                [s \in DOMAIN @ |->
                    IF @[s].status = "DOWN"
                    THEN [@[s] EXCEPT !.status = "UP",
                                      !.fail_streak = 0,
                                      !.reminder_count = 0,
                                      !.next_reminder_at = NULL,
                                      !.current_incident_id = NULL]
                    ELSE @[s]],
            !.user_mutes = {}]

RunResetSites ==
    /\ Apply(reset_sites(DB))
    /\ UNCHANGED <<now, tasks, conns>>

ResetNext ==
    \/ Tick
    \/ CallUpdateOnSuccess
    \/ CallUpdateOnFailure
    \/ CallMute
    \/ RunResetSites

SpecReset == Init /\ [][ResetNext]_vars

\* ------------------------------------------------------------------------
\* Properties of the reset script under SpecReset
\* ------------------------------------------------------------------------
\* a run of the script that found a DOWN row
ResetRuns ==
    /\ \E s \in Sites : IsDown(s)
    /\ sites_state' = reset_sites(DB).sites_state
    /\ incidents' = reset_sites(DB).incidents
    /\ user_mutes' = reset_sites(DB).user_mutes

\* C39: when the reset script has set every DOWN site to UP, no site with
\* status UP has an incident row whose ended_at is null.
C39_AsClaimed ==
    [][ResetRuns =>
          \A s \in Sites :
              (s \in DOMAIN sites_state' /\ sites_state'[s].status = "UP")
                  => ~ \E i \in DOMAIN incidents' :
                          /\ incidents'[i].site_id = s
                          /\ incidents'[i].ended_at = NULL]_vars

====
